---- MODULE Spec2Model ----
(***************************************************************************)
(* A model of the ff-proxy streaming and cache pipeline:                   *)
(*   - the Forwarder chain that handles every upstream SSE message,        *)
(*   - the SaaS stream on-connect / on-disconnect handlers,                *)
(*   - the memoize cache's marshal / unmarshal functions,                  *)
(*   - Config.Populate and the Refresher's proxy events,                   *)
(*   - the metrics queue and its Listen consumer,                          *)
(*   - RedisStream.Sub and the stream wrapper's Subscribe loop,            *)
(*   - a Read Replica's view of the shared stream status,                  *)
(*   - the startup of the proxy in main.                                   *)
(* Each component has its own next-state relation and specification; the   *)
(* variables of the other components stay unchanged.                       *)
(***************************************************************************)
EXTENDS Naturals, Integers, Sequences, FiniteSets, TLC

VARIABLES
    \* ---- Forwarder chain (stream.Forwarder, one message at a time) ----
    fTopology,        \* which wiring of forwarders handles the message
    fMsg,             \* the SSEMessage being handled: [domain, event]
    fPubFail,         \* the publishers whose Pub fails for this message
    fHandlerFail,     \* whether the delegate's I/O (or the mock handler) fails
    fpc,              \* position of the call: idle, forward, delegate, return, done
    fIdx,             \* index of the forwarder of the chain that runs next
    pubAttempts,      \* publisher -> number of Pub calls for this message
    eventsForwarded,  \* publisher -> number of successful Pub calls
    fPubErr,          \* publisher -> error of its Pub call ("nil" if none)
    delegateCalls,    \* number of calls of the final handler for this message
    fDelegateErr,     \* error returned by the final handler
    fRet,             \* error returned by the outermost HandleMessage
    fSteps,           \* the handlers run so far, in order: [h, pub]
    \* ---- SaaS stream on-connect / on-disconnect handlers (primary) ----
    hKind,            \* the handler that runs: none, connect, disconnect
    hIdx,             \* index of the handler's step that runs next
    hHung,            \* the call of the current step has not returned
    hLog,             \* the calls the handler made so far, in order: [step, id]
    hStatus,          \* the state SaasStreamOnConnect read from streamHealth
    hToClose,         \* stream ids of the snapshot that are not closed yet
    hSnapshot,        \* the snapshot streams() returned to the handler
    hCloseCalls,      \* stream id -> number of pp.Close calls of this run
    hPublishOk,       \* whether the handler's control publish succeeded
    hBusAtStart,      \* length of the control stream when the handler started
    hTimedOut,        \* the steps of this run whose call ended by the timeout
    healthInMem,      \* the primary's in-memory stream state
    healthCached,     \* the state stored under ffproxy_saas_stream_health
    connectedStreams, \* ids of the registered Proxy->SDK streams
    controlBus,       \* messages on proxy:primary_to_replica_control_events
    \* ---- Memoize cache (marshal / unmarshal functions) ----
    ffCache,          \* the in-process map: digest -> cached object, or NoEntry
    mHit,             \* counter hit
    mMiss,            \* counter miss
    mWriteMarshal,    \* counter write_marshal
    mHitWithUnmarshal,\* counter hit_with_unmarshal
    mDecodes,         \* number of jsoniter.Unmarshal calls made
    mPrev,            \* the counters before the last call
    mLast,            \* the last call: its kind, bytes, destination, result
    mDest,            \* the caller's destination object after the last read
    mWritten,         \* the bytes the marshal function has produced so far
    mLive,            \* of those, the bytes whose entry has not expired since
    mCold,            \* the bytes a cold read into a pointer has stored, not expired since
    mOps,             \* number of calls made
    \* ---- Config.Populate and the Refresher's proxy events ----
    authRepo,         \* auth-key-<K> -> environment, or NoEnv
    apiKeyList,       \* environment -> its list of API keys, present or not
    flagRepo,         \* environment -> its flag config, <<>> when there is none
    segmentRepo,      \* environment -> its segment config, <<>> when there is none
    proxyConfig,      \* Config.proxyConfig, the staged environments
    cOp,              \* the operation in progress and its message
    cpc,              \* where the operation is
    cIdx,             \* index into the message's environments
    cFetched,         \* what PageProxyConfig returned to this operation, per environment
    cResult,          \* the last return: its error and the repos at that moment
    cStart,           \* the repos and the upstream call count when the operation began
    cUpstreamCalls,   \* number of ClientService calls made
    cOps,             \* number of operations begun
    pEnvs,            \* the environments Populate ranges over
    gpc,              \* per environment of pEnvs: where its goroutine is
    gErr,             \* per environment of pEnvs: the error its populate returned
    gCalls,           \* per environment of pEnvs: the repo calls its populate made
    pRet,             \* Populate's return: "none", "running", "nil" or an error
    keyEvents,        \* per key: the outcome of the last api-key event for it
    \* ---- Metrics queue ----
    metricsData,      \* the evaluation sub-buffer: environment -> request, and its size
    targetData,       \* the target sub-buffer
    queue,            \* what has been put on the output channel, in order
    qLast,            \* the last call or tick, with the sub-buffers before it; for
                      \* a tick, whether the call before it flushed the sub-buffer
    qOps,             \* number of calls and ticks
    qCtx,             \* the context of Listen: "live" or "cancelled"
    yielded,          \* how many of the emitted maps the consumer has received
    listenPc,         \* the goroutine of Listen: "running" or "closed"
    rangePc,          \* the consumer's range loop: "ranging" or "done"
    \* ---- RedisStream.Sub ----
    xStream,          \* number of messages on the stream (their ids are 1..xStream)
    xId,              \* the id Sub reads after: "$" or the id it was given
    xPc,              \* position of Sub: idle, select, xread, handle, handling, returned
    xCtx,             \* the context of Sub: "live" or "cancelled"
    xFrom,            \* the position the current XRead reads after
    xBatch,           \* the messages the last XRead returned
    xIdx,             \* index in xBatch of the message handled next
    xActive,          \* number of handler invocations in progress
    xHandled,         \* the messages handed to the handler, in order
    xLast,            \* the last step of Sub and the handler's last result
    xRet,             \* the error Sub returned
    xReads,           \* number of XRead calls
    xStart,           \* the position the subscription's first XRead read after
    \* ---- Stream wrapper (Stream.Subscribe) ----
    wPc,              \* position of the loop: idle, check, subscribed, disconnect, backoff, exited
    wCtx,             \* the context of Subscribe: "live" or "cancelled"
    wCaller,          \* whether the call of Subscribe has returned to main
    wLog,             \* the steps of the loop so far, in order; a return of the
                      \* transport's subscribe is logged as what it returned
    wErr,             \* what the transport's subscribe returned last
    wSubs,            \* number of calls of the transport's subscribe
    \* ---- Read Replica and the shared stream status ----
    rCached,          \* the value under ffproxy_saas_stream_health, or NoStatus
    rLocal,           \* the replica's in-memory stream state
    rPc,              \* getStreamStatusForReplica: "polling" or "returned"
    rCtx,             \* the replica's context: "live" or "cancelled"
    rSets,            \* number of times the routine has set the local state
    rPoll,            \* what the routine's last read returned
    rLast,            \* who made the last step: primary, poll, event, cancel, exit
    rSteps,           \* number of writes, polls and control events
    \* ---- main: startup ----
    pReadReplica,     \* the readReplica flag
    pOffline,         \* the offline flag
    pMetricsEnabled,  \* metricPostDuration != 0 && !offline
    pPc,              \* the step of main that runs next, "serving" or "exited"
    pConfigStatus,    \* configStatus
    pConfigErr,       \* whether config.NewConfig returned an error
    pFetch,           \* the result of the initial FetchAndPopulate: none, nil, err
    pSubscribed,      \* the streams main has subscribed to
    pRoutines,        \* the background routines main has started
    pExitAt,          \* the step at which the process exited, or "none"
    \* ---- Config.FetchAndPopulate, step by step ----
    tPc,              \* index of the step of FetchAndPopulate that runs next; 0: no call
    tLog,             \* the calls made so far by this call of FetchAndPopulate, in order
    tNotifications,   \* notificationsToSend: what inventory.Cleanup returned
    tSent,            \* number of notifications notifySDKs has published
    tConfig,          \* the environments of the config retrieveConfig returned
    tWritten,         \* the environments whose populate has made its repo write
    tPopulate,        \* Populate: "no" call yet, "running" or "returned"
    tRet,             \* the error FetchAndPopulate returned, "none" while it runs
    tRuns,            \* number of calls of FetchAndPopulate
    \* ---- a Read Replica following the Primary's handlers ----
    repLocal,         \* the replica's in-memory stream state
    repApplied,       \* number of control events the replica has applied
    repSnapPc,        \* getStreamStatusForReplica: "polling", "set" or "returned"
    repSnapRead,      \* the call the routine decided on from the state it read
    repBusAtGet,      \* number of control events published when the routine read
    repNewerApplied,  \* an event published after the routine's read was applied
    \* ---- SDK /stream requests in flight ----
    sPending,         \* the requests that passed the health check, not yet registered
    \* ---- the goroutines of Config.Populate ----
    kN,               \* number of environments of the staged config; 0: no call yet
    kpc,              \* per goroutine: start, populate, send, deferred, done
    kErr,             \* per goroutine: whether its populate returned an error
    kSem,             \* number of values in the semaphore channel
    kClosed,          \* errchan and semaphore are closed
    kRet,             \* what Populate returned: "none", "nil" or "err"
    \* ---- two callers staging a config on one Config ----
    gConfig,          \* Config.proxyConfig, as the set of its environments
    gFpc,             \* FetchAndPopulate: idle, fetched, staged, ranged
    gFetched,         \* the environments FetchAndPopulate retrieved
    gRead,            \* the environments its Populate ranged over
    gWritten,         \* the environments its Populate wrote
    gRet,             \* what FetchAndPopulate returned: "none", "nil" or "err"
    gReloads,         \* number of FetchAndPopulate calls
    gRpc,             \* handleAddEnvironmentEvent: idle, loop, fetched, staged, ranged, deferred
    gREnvs,           \* the environments of the message still to handle
    gRFetched,        \* the environments of the page it fetched
    gRRead            \* the environments its Populate ranged over

fvars == <<fTopology, fMsg, fPubFail, fHandlerFail, fpc, fIdx, pubAttempts,
           eventsForwarded, fPubErr, delegateCalls, fDelegateErr, fRet, fSteps>>

hvars == <<hKind, hIdx, hHung, hLog, hStatus, hToClose, hSnapshot, hCloseCalls,
           hPublishOk, hBusAtStart, hTimedOut, healthInMem, healthCached, connectedStreams,
           controlBus>>

mvars == <<ffCache, mHit, mMiss, mWriteMarshal, mHitWithUnmarshal, mDecodes,
           mPrev, mLast, mDest, mWritten, mLive, mCold, mOps>>

cvars == <<authRepo, apiKeyList, flagRepo, segmentRepo, proxyConfig, cOp, cpc, cIdx,
           cFetched, cResult, cStart, cUpstreamCalls, cOps, pEnvs, gpc, gErr,
           gCalls, pRet, keyEvents>>

lvars == <<qCtx, yielded, listenPc, rangePc>>

qvars == <<metricsData, targetData, queue, qLast, qOps, lvars>>

oldvars == <<fvars, hvars, mvars, cvars, qvars>>

wvars == <<wPc, wCtx, wCaller, wLog, wErr, wSubs>>

xvars == <<xStream, xId, xPc, xCtx, xFrom, xBatch, xIdx, xActive, xHandled, xLast,
           xRet, xReads,
          xStart>>

rvars == <<rCached, rLocal, rPc, rCtx, rSets, rPoll, rLast, rSteps>>

pvars == <<pReadReplica, pOffline, pMetricsEnabled, pPc, pConfigStatus, pConfigErr, pFetch,
           pSubscribed, pRoutines, pExitAt>>

tvars == <<tPc, tLog, tNotifications, tSent, tConfig, tWritten, tPopulate, tRet,
          tRuns>>

yvars == <<repLocal, repApplied, repSnapPc, repSnapRead, repBusAtGet, repNewerApplied>>

svars == <<sPending>>

kvars == <<kN, kpc, kErr, kSem, kClosed, kRet>>

gvars == <<gConfig, gFpc, gFetched, gRead, gWritten, gRet, gReloads, gRpc, gREnvs, gRFetched,
           gRRead>>

\* The variables of the components below the startup of main.
evars == <<tvars, yvars, svars, kvars, gvars>>

nvars == <<wvars, xvars, rvars, pvars, evars>>

prevvars == <<oldvars, wvars, xvars, rvars, pvars>>

\* What the steps of FetchAndPopulate leave unchanged.
exceptFetch == <<prevvars, yvars, svars, kvars, gvars>>

\* What the steps of the following replica leave unchanged.
exceptFollow == <<prevvars, tvars, svars, kvars, gvars>>

\* What the goroutines of Populate leave unchanged.
exceptGo == <<prevvars, tvars, yvars, svars, gvars>>

\* What the two callers staging a config leave unchanged.
exceptStaged == <<prevvars, tvars, yvars, svars, kvars>>

vars == <<fvars, hvars, mvars, cvars, qvars, nvars>>

-----------------------------------------------------------------------------
(* Message domains and events (domain.SSEMessage)                          *)

MsgDomainFeature == "flag"
MsgDomainSegment == "target-segment"
MsgDomainProxy == "proxy"

EventCreate == "create"
EventPatch == "patch"
EventDelete == "delete"
EventProxyKeyDeleted == "proxy-key-deleted"
EventEnvironmentAdded == "environment-added"
EventEnvironmentRemoved == "environment-removed"
EventAPIKeyAdded == "api-key-added"
EventAPIKeyRemoved == "api-key-removed"

\* The domains and events messages are drawn from: the known ones, the empty
\* string and one unknown string each.
Domains == {MsgDomainFeature, MsgDomainSegment, MsgDomainProxy, "", "foo"}

Events == {EventCreate, EventPatch, EventDelete, EventProxyKeyDeleted,
           EventEnvironmentAdded, EventEnvironmentRemoved, EventAPIKeyAdded,
           EventAPIKeyRemoved, ""}

Messages == [domain : Domains, event : Events]

-----------------------------------------------------------------------------
(* Refresher.HandleMessage: the dispatch on domain and event.  ioFail says *)
(* whether the upstream fetch or the repo write of a proxy event fails.    *)

handleFeatureMessage(msg) ==
    IF msg.event \in {EventDelete, EventPatch, EventCreate}
    THEN "nil"
    ELSE "ErrUnexpectedEventType"

handleSegmentMessage(msg) ==
    IF msg.event \in {EventDelete, EventPatch, EventCreate}
    THEN "nil"
    ELSE "ErrUnexpectedEventType"

handleProxyMessage(msg, ioFail) ==
    CASE msg.event = EventProxyKeyDeleted -> "nil"
      [] msg.event \in {EventEnvironmentAdded, EventEnvironmentRemoved,
                        EventAPIKeyAdded, EventAPIKeyRemoved} ->
            IF ioFail THEN "ErrIO" ELSE "nil"
      [] OTHER -> "ErrUnexpectedEventType"

RefresherHandleMessage_DefaultNil(msg, ioFail) ==
    CASE msg.domain = MsgDomainFeature -> handleFeatureMessage(msg)
      [] msg.domain = MsgDomainSegment -> handleSegmentMessage(msg)
      [] msg.domain = MsgDomainProxy -> handleProxyMessage(msg, ioFail)
      [] OTHER -> "nil"

RefresherHandleMessage(msg, ioFail) ==
    CASE msg.domain = MsgDomainFeature -> handleFeatureMessage(msg)
      [] msg.domain = MsgDomainSegment -> handleSegmentMessage(msg)
      [] msg.domain = MsgDomainProxy -> handleProxyMessage(msg, ioFail)
      [] OTHER -> "ErrUnexpectedMessageDomain"

\* domain.NoOpMessageHandler: does nothing and returns nil.
NoOpHandleMessage(msg) == "nil"

\* mockMessageHandler of the forwarder tests: returns what the test gives it.
MockHandleMessage(fail) == IF fail THEN "ErrMock" ELSE "nil"

-----------------------------------------------------------------------------
(* The wirings of forwarders: the publishers of the chain, outermost       *)
(* first, and the handler at its end.                                      *)

Publishers == {"pushpin", "redis", "mock"}

\* Mutant: the pushpin forwarder wraps the refresher directly, the redis
\* forwarder is left out of the chain.
PrimaryChain_NoRedis == <<"pushpin">>

\* Mutant: the two forwarders are nested the other way round.
PrimaryChain_RedisFirst == <<"redis", "pushpin">>

\* messageHandler = Forwarder(pushpinStream, Forwarder(redisStream, cacheRefresher))
PrimaryChain == <<"pushpin", "redis">>

\* readReplicaSSEStream's handler: Forwarder(pushpinStream, NoOpMessageHandler)
ReplicaChain == <<"pushpin">>

\* NewForwarder(logger, tc.mocks.publisher, tc.mocks.messageHandler)
TestSingleChain == <<"mock">>

\* pushpinForwarder = Forwarder(pushpinStream, Forwarder(redisStream, NoOp))
TestMultiChain == <<"pushpin", "redis">>

Topologies == {"primary", "replica", "test_single", "test_multi"}

Chain(t) ==
    CASE t = "primary" -> PrimaryChain
      [] t = "replica" -> ReplicaChain
      [] t = "test_single" -> TestSingleChain
      [] OTHER -> TestMultiChain

FinalHandler(t) ==
    CASE t = "primary" -> "refresher"
      [] t = "test_single" -> "mockHandler"
      [] OTHER -> "noop"

FinalResult(t, msg, fail) ==
    CASE FinalHandler(t) = "refresher" -> RefresherHandleMessage(msg, fail)
      [] FinalHandler(t) = "mockHandler" -> MockHandleMessage(fail)
      [] OTHER -> NoOpHandleMessage(msg)

ChainPublishers(t) == {Chain(t)[i] : i \in 1..Len(Chain(t))}

-----------------------------------------------------------------------------
(* Forwarder.HandleMessage, one layer of the chain.                        *)

\* Mutant: the forwarder republishes every message that names a domain.
ForwarderPublishes_AnyDomain(msg) == msg.domain # ""

\* The messages a Forwarder republishes on its stream.
ForwarderPublishes(msg) == msg.domain \in {MsgDomainFeature, MsgDomainSegment}

\* The publisher's Pub: fails when the transport fails (mockPublisher.Pub
\* returns the error of its pub func before counting the event).
PubResult(p, failing) == IF p \in failing THEN "ErrPublish" ELSE "nil"

\* Mutant: a failed publish is returned and hides the wrapped handler's result.
ForwarderReturn_PublishErrorFirst(pubErr, nextErr) ==
    IF pubErr # "nil" THEN pubErr ELSE nextErr

\* Mutant: the wrapped handler's error is dropped, only the publish counts.
ForwarderReturn_DropsDelegateError(pubErr, nextErr) == pubErr

\* What one Forwarder returns given the error of its own publish and the
\* error of the handler it wraps: the wrapped handler's error.  The publish
\* error is logged only (the forwarder tests expect nil when only the
\* publish fails).
ForwarderReturn(pubErr, nextErr) == nextErr

\* The error the forwarder at position i of the chain returns, once the final
\* handler has returned delegateErr.
RECURSIVE ChainReturn(_, _, _, _)
ChainReturn(chain, i, pubErr, delegateErr) ==
    IF i > Len(chain)
    THEN delegateErr
    ELSE ForwarderReturn(pubErr[chain[i]], ChainReturn(chain, i + 1, pubErr, delegateErr))

ZeroCount == [p \in Publishers |-> 0]
NoPubErr == [p \in Publishers |-> "nil"]

InitForwarder ==
    /\ fTopology = "primary"
    /\ fMsg = [domain |-> "", event |-> ""]
    /\ fPubFail = {}
    /\ fHandlerFail = FALSE
    /\ fpc = "idle"
    /\ fIdx = 1
    /\ pubAttempts = ZeroCount
    /\ eventsForwarded = ZeroCount
    /\ fPubErr = NoPubErr
    /\ delegateCalls = 0
    /\ fDelegateErr = "nil"
    /\ fRet = "nil"
    /\ fSteps = <<>>

\* A message arrives at the outermost handler: from the upstream SSE stream
\* (primary), from the internal SSE topic (replica) or from a test.
ReceiveMessage ==
    /\ fpc \in {"idle", "done"}
    /\ \E t \in Topologies, m \in Messages, hf \in BOOLEAN :
         \E pf \in SUBSET ChainPublishers(t) :
            /\ fTopology' = t
            /\ fMsg' = m
            /\ fPubFail' = pf
            /\ fHandlerFail' = hf
    /\ fpc' = "forward"
    /\ fIdx' = 1
    /\ pubAttempts' = ZeroCount
    /\ eventsForwarded' = ZeroCount
    /\ fPubErr' = NoPubErr
    /\ delegateCalls' = 0
    /\ fDelegateErr' = "nil"
    /\ fRet' = "nil"
    /\ fSteps' = <<>>
    /\ UNCHANGED <<hvars, mvars, cvars, qvars, nvars>>

\* The forwarder at position fIdx runs: it publishes a flag or target-segment
\* message on its stream, then hands the message to the handler it wraps
\* whether or not the publish failed.
ForwarderHandleMessage ==
    /\ fpc = "forward"
    /\ fIdx <= Len(Chain(fTopology))
    /\ LET p == Chain(fTopology)[fIdx]
           publishes == ForwarderPublishes(fMsg)
           err == IF publishes THEN PubResult(p, fPubFail) ELSE "nil"
       IN  /\ pubAttempts' = IF publishes
                             THEN [pubAttempts EXCEPT ![p] = @ + 1]
                             ELSE pubAttempts
           /\ eventsForwarded' = IF publishes /\ err = "nil"
                                 THEN [eventsForwarded EXCEPT ![p] = @ + 1]
                                 ELSE eventsForwarded
           /\ fPubErr' = [fPubErr EXCEPT ![p] = err]
           /\ fSteps' = Append(fSteps,
                  [h |-> p,
                   pub |-> IF ~publishes THEN "none"
                           ELSE IF err = "nil" THEN "ok" ELSE "fail"])
    /\ fIdx' = fIdx + 1
    /\ fpc' = IF fIdx = Len(Chain(fTopology)) THEN "delegate" ELSE "forward"
    /\ UNCHANGED <<fTopology, fMsg, fPubFail, fHandlerFail, delegateCalls,
                   fDelegateErr, fRet>>
    /\ UNCHANGED <<hvars, mvars, cvars, qvars, nvars>>

\* The handler at the end of the chain runs.
DelegateHandleMessage ==
    /\ fpc = "delegate"
    /\ delegateCalls' = delegateCalls + 1
    /\ fDelegateErr' = FinalResult(fTopology, fMsg, fHandlerFail)
    /\ fSteps' = Append(fSteps, [h |-> FinalHandler(fTopology), pub |-> "none"])
    /\ fpc' = "return"
    /\ UNCHANGED <<fTopology, fMsg, fPubFail, fHandlerFail, fIdx, pubAttempts,
                   eventsForwarded, fPubErr, fRet>>
    /\ UNCHANGED <<hvars, mvars, cvars, qvars, nvars>>

\* The calls unwind: every forwarder of the chain returns to its caller.
ReturnToCaller ==
    /\ fpc = "return"
    /\ fRet' = ChainReturn(Chain(fTopology), 1, fPubErr, fDelegateErr)
    /\ fpc' = "done"
    /\ UNCHANGED <<fTopology, fMsg, fPubFail, fHandlerFail, fIdx, pubAttempts,
                   eventsForwarded, fPubErr, delegateCalls, fDelegateErr, fSteps>>
    /\ UNCHANGED <<hvars, mvars, cvars, qvars, nvars>>

NextForwarder ==
    \/ ReceiveMessage
    \/ ForwarderHandleMessage
    \/ DelegateHandleMessage
    \/ ReturnToCaller

-----------------------------------------------------------------------------
(* Properties of the Forwarder chain                                       *)

\* The publishers each wiring is meant to publish on.
ExpectedPublishers(t) ==
    CASE t \in {"primary", "test_multi"} -> {"pushpin", "redis"}
      [] t = "replica" -> {"pushpin"}
      [] OTHER -> {"mock"}

IsFlagOrSegment == fMsg.domain \in {"flag", "target-segment"}

SomePublishFailed == \E p \in Publishers : fPubErr[p] # "nil"

\* C1: for a flag or target-segment message, when HandleMessage has returned,
\* every publisher of the chain has been published on exactly once (counted
\* as forwarded exactly when its publish succeeded) and the final handler has
\* been called exactly once, whatever failed; nothing is ever attempted twice.
C1_ExactlyOnePublishAndOneDelegate ==
    /\ \A p \in Publishers : pubAttempts[p] <= 1
    /\ delegateCalls <= 1
    /\ (fpc = "done" /\ IsFlagOrSegment) =>
          /\ delegateCalls = 1
          /\ \A p \in Publishers :
                /\ pubAttempts[p] = IF p \in ExpectedPublishers(fTopology) THEN 1 ELSE 0
                /\ eventsForwarded[p] =
                      IF p \in ExpectedPublishers(fTopology) /\ p \notin fPubFail
                      THEN 1 ELSE 0

\* C1 witness: in the two-forwarder chain the outer (pushpin) publish failed,
\* the inner (redis) forwarder still published and the delegate failed.
C1_Witness ==
    /\ fpc = "done"
    /\ fTopology = "primary"
    /\ fMsg.domain = "flag"
    /\ fPubFail = {"pushpin"}
    /\ eventsForwarded["redis"] = 1
    /\ eventsForwarded["pushpin"] = 0
    /\ fDelegateErr # "nil"
    /\ delegateCalls = 1

\* C2: a message whose domain is not flag or target-segment is never
\* published on any transport; it still reaches the final handler, once, and
\* that handler's error is what the caller gets (the refresher's
\* unexpected-domain error, the failing mock handler's error).
C2_OtherDomainsNotPublishedButDelegated ==
    (~IsFlagOrSegment) =>
        /\ \A p \in Publishers : pubAttempts[p] = 0 /\ eventsForwarded[p] = 0
        /\ fpc = "done" =>
              /\ delegateCalls = 1
              /\ fRet = fDelegateErr
              /\ (fTopology = "primary" /\ fMsg.domain # "proxy")
                    => fRet = "ErrUnexpectedMessageDomain"
              /\ (fTopology = "test_single" /\ fHandlerFail) => fRet # "nil"
              /\ (fTopology \in {"replica", "test_multi"}) => fRet = "nil"

\* C2 witness: a message with an unknown domain has gone through the primary
\* chain, unpublished, and the refresher's error came back.
C2_Witness ==
    /\ fpc = "done"
    /\ fTopology = "primary"
    /\ fMsg.domain = "foo"
    /\ fPubFail = {"pushpin", "redis"}
    /\ delegateCalls = 1
    /\ fRet = "ErrUnexpectedMessageDomain"

DelegateSucceedsByInput ==
    \/ fTopology \in {"replica", "test_multi"}
    \/ fTopology = "test_single" /\ ~fHandlerFail
    \/ fTopology = "primary" /\ fMsg.event \in {"create", "patch", "delete"}

PrimaryStages == <<"pushpin", "redis", "refresher">>

\* C5: on the primary every message passes the pushpin forwarder, then the
\* redis forwarder, then the refresher, in that order; a flag or
\* target-segment message is published at each forwarder stage (other
\* messages are not published at all); the refresher runs whether the
\* publishes failed or not, and never before both publishes were attempted.
C5_PrimaryOrder ==
    fTopology = "primary" =>
        /\ Len(fSteps) <= 3
        /\ \A i \in 1..Len(fSteps) :
              /\ fSteps[i].h = PrimaryStages[i]
              /\ (IsFlagOrSegment /\ i <= 2) => fSteps[i].pub \in {"ok", "fail"}
              /\ (i = 1) => (fSteps[i].pub = "fail") = ("pushpin" \in fPubFail /\ IsFlagOrSegment)
              /\ (i = 2) => (fSteps[i].pub = "fail") = ("redis" \in fPubFail /\ IsFlagOrSegment)
        /\ (delegateCalls > 0 /\ IsFlagOrSegment) =>
              pubAttempts["pushpin"] = 1 /\ pubAttempts["redis"] = 1
        /\ fpc = "done" => Len(fSteps) = 3 /\ delegateCalls = 1

\* C5 witness: both publishes failed and the refresher was still reached, last.
C5_Witness ==
    /\ fpc = "done"
    /\ fTopology = "primary"
    /\ fMsg = [domain |-> "target-segment", event |-> "patch"]
    /\ fPubFail = {"pushpin", "redis"}
    /\ Len(fSteps) = 3
    /\ fSteps[1] = [h |-> "pushpin", pub |-> "fail"]
    /\ fSteps[2] = [h |-> "redis", pub |-> "fail"]
    /\ fSteps[3].h = "refresher"
    /\ fRet = "nil"

-----------------------------------------------------------------------------
(* The SaaS stream handlers of the primary: SaasStreamOnDisconnect and     *)
(* SaasStreamOnConnect.  The SSE client runs one handler at a time; SDK     *)
(* stream requests arrive concurrently.                                    *)

StreamStateInitializing == "INITIALIZING"
StreamStateConnected == "CONNECTED"
StreamStateDisconnected == "DISCONNECTED"

StreamStates == {StreamStateInitializing, StreamStateConnected, StreamStateDisconnected}

\* The environment ids SDK streams are registered under.
Envs == {"e1", "e2"}

\* The control stream holds at most this many events in the model.
MaxControlEvents == 3

\* A call returns nil, returns an error, or does not return.
Outcomes == {"ok", "err", "hang"}

\* The control events the two handlers publish.
DisconnectedEvent == [event |-> "stream_action", domain |-> StreamStateDisconnected]
ConnectedEvent == [event |-> "stream_action", domain |-> StreamStateConnected]

\* Mutant: the SDK streams are closed before the health is set to unhealthy.
DisconnectSteps_CloseBeforeUnhealthy ==
    <<"Poll", "Snapshot", "Close", "SetUnhealthy", "Publish">>

\* Mutant: the control event is published a second time.
DisconnectSteps_PublishTwice ==
    <<"SetUnhealthy", "Poll", "Snapshot", "Close", "Publish", "Publish">>

\* The calls of SaasStreamOnDisconnect in program order: SetUnhealthy, pollFn,
\* streams() (the range expression), pp.Close per stream id, Publish.
DisconnectSteps == <<"SetUnhealthy", "Poll", "Snapshot", "Close", "Publish">>

\* The calls of SaasStreamOnConnect in program order: Status, reloadConfig
\* (only after a DISCONNECTED status), SetHealthy, Publish.
ConnectSteps == <<"Status", "Reload", "SetHealthy", "Publish">>

HandlerSteps(kind) == IF kind = "disconnect" THEN DisconnectSteps ELSE ConnectSteps

\* Mutant: the config is reloaded unless the previous state was CONNECTED.
ShouldReload_UnlessConnected(state) == state # StreamStateConnected

\* The condition under which SaasStreamOnConnect reloads the config.
ShouldReload(state) == state = StreamStateDisconnected

\* Mutant: the control publish is made with a context without timeout.
HasDeadline_PublishUnbounded(step) == step \in {"SetUnhealthy", "Status", "SetHealthy"}

\* The calls that are given a context with the 15 s timeout, and so return
\* when it expires: SetUnhealthy, Status, SetHealthy and the two Publish
\* calls.  pollFn, reloadConfig and pp.Close take no context.
HasDeadline(step) == step \in {"SetUnhealthy", "Status", "SetHealthy", "Publish"}

\* Whether the step runs at all: the Close loop has no iteration for an empty
\* snapshot, the reload is skipped unless the status read was DISCONNECTED.
StepApplies(step, toClose, status) ==
    CASE step = "Close" -> toClose # {}
      [] step = "Reload" -> ShouldReload(status)
      [] OTHER -> TRUE

\* The index of the first step after i that runs (Len + 1: the handler returns).
RECURSIVE NextIdx(_, _, _, _)
NextIdx(steps, i, toClose, status) ==
    IF i + 1 > Len(steps) THEN Len(steps) + 1
    ELSE IF StepApplies(steps[i + 1], toClose, status) THEN i + 1
    ELSE NextIdx(steps, i + 1, toClose, status)

HandlerDone == hKind # "none" /\ hIdx > Len(HandlerSteps(hKind))

\* The step whose call is next, or is in flight.
CurrentStep ==
    IF hKind = "none" \/ HandlerDone THEN "none" ELSE HandlerSteps(hKind)[hIdx]

InitHandlers ==
    /\ hKind = "none"
    /\ hIdx = 1
    /\ hHung = FALSE
    /\ hLog = <<>>
    /\ hStatus = ""
    /\ hToClose = {}
    /\ hSnapshot = {}
    /\ hCloseCalls = [e \in Envs |-> 0]
    /\ hPublishOk = FALSE
    /\ hBusAtStart = 0
    /\ hTimedOut = {}
    /\ healthInMem = StreamStateInitializing
    /\ healthCached = StreamStateInitializing
    /\ connectedStreams = {}
    /\ controlBus = <<>>

\* The SSE client connects to, or loses, the upstream stream and calls the
\* handler; the previous handler has returned.
StartHandler ==
    /\ hKind = "none" \/ HandlerDone
    /\ Len(controlBus) < MaxControlEvents
    /\ \E k \in {"connect", "disconnect"} : hKind' = k
    /\ hIdx' = 1
    /\ hHung' = FALSE
    /\ hLog' = <<>>
    /\ hStatus' = ""
    /\ hToClose' = {}
    /\ hSnapshot' = {}
    /\ hCloseCalls' = [e \in Envs |-> 0]
    /\ hPublishOk' = FALSE
    /\ hBusAtStart' = Len(controlBus)
    /\ hTimedOut' = {}
    /\ UNCHANGED <<healthInMem, healthCached, connectedStreams, controlBus>>
    /\ UNCHANGED <<fvars, mvars, cvars, qvars, nvars>>

\* Mutant: any failed call ends the handler.
EndsHandler_AnyFailure(step, outcome) == outcome = "err"

\* The one return statement inside the handlers' bodies: after a failed
\* Publish.  Every other error is logged (or dropped) and the handler goes on.
EndsHandler(step, outcome) == step = "Publish" /\ outcome = "err"

\* The handler moves to its next step once the current call has returned,
\* or returns.
Advance(outcome, toClose, status) ==
    hIdx' = IF EndsHandler(CurrentStep, outcome)
            THEN Len(HandlerSteps(hKind)) + 1
            ELSE NextIdx(HandlerSteps(hKind), hIdx, toClose, status)

\* streamHealth.SetUnhealthy / SetHealthy returning: on success the in-memory
\* and the cached state are both the new state; on failure the cached state
\* is unchanged and the in-memory state may or may not have been set.
SetHealthReturns(state, outcome) ==
    /\ IF outcome = "ok"
       THEN /\ healthInMem' = state
            /\ healthCached' = state
       ELSE /\ healthInMem' \in {healthInMem, state}
            /\ healthCached' = healthCached
    /\ Advance(outcome, hToClose, hStatus)
    /\ UNCHANGED <<hStatus, hToClose, hSnapshot, hCloseCalls, hPublishOk,
                   connectedStreams, controlBus>>

\* streamHealth.Status returning: the state, or an error with any status value
\* (the error is logged and the returned status is used all the same).
StatusReturns(outcome) ==
    /\ IF outcome = "ok"
       THEN hStatus' = healthInMem
       ELSE hStatus' \in StreamStates \cup {""}
    /\ Advance(outcome, hToClose, hStatus')
    /\ UNCHANGED <<hToClose, hSnapshot, hCloseCalls, hPublishOk, healthInMem,
                   healthCached, connectedStreams, controlBus>>

\* pollFn / reloadConfig returning: an error is logged, nothing else.
PollReturns(outcome) ==
    /\ Advance(outcome, hToClose, hStatus)
    /\ UNCHANGED <<hStatus, hToClose, hSnapshot, hCloseCalls, hPublishOk,
                   healthInMem, healthCached, connectedStreams, controlBus>>

\* redisSSEStream.Publish returning: on success the event is on the control
\* stream; on failure the handler logs and returns.
PublishReturns(outcome) ==
    /\ IF outcome = "ok"
       THEN /\ controlBus' = Append(controlBus,
                   IF hKind = "disconnect" THEN DisconnectedEvent ELSE ConnectedEvent)
            /\ hPublishOk' = TRUE
       ELSE /\ controlBus' = controlBus
            /\ hPublishOk' = FALSE
    /\ Advance(outcome, hToClose, hStatus)
    /\ UNCHANGED <<hStatus, hToClose, hSnapshot, hCloseCalls, healthInMem,
                   healthCached, connectedStreams>>

\* What the return of the call of a step does.
StepReturns(step, outcome) ==
    CASE step = "SetUnhealthy" -> SetHealthReturns(StreamStateDisconnected, outcome)
      [] step = "SetHealthy" -> SetHealthReturns(StreamStateConnected, outcome)
      [] step = "Status" -> StatusReturns(outcome)
      [] step \in {"Poll", "Reload"} -> PollReturns(outcome)
      [] OTHER -> PublishReturns(outcome)

\* A call of the handler other than streams() and pp.Close: it is made, and
\* returns with a result or hangs.
Call(step) ==
    /\ CurrentStep = step
    /\ ~hHung
    /\ \E o \in Outcomes :
          /\ hLog' = Append(hLog, [step |-> step, id |-> "", ret |-> o])
          /\ IF o = "hang"
             THEN /\ hHung' = TRUE
                  /\ UNCHANGED <<hIdx, hStatus, hToClose, hSnapshot, hCloseCalls,
                                 hPublishOk, healthInMem, healthCached,
                                 connectedStreams, controlBus>>
             ELSE /\ hHung' = FALSE
                  /\ StepReturns(step, o)
    /\ UNCHANGED <<hKind, hBusAtStart, hTimedOut>>
    /\ UNCHANGED <<fvars, mvars, cvars, qvars, nvars>>

\* _ = streamHealth.SetUnhealthy(ctx)
SetUnhealthy ==
    /\ hKind = "disconnect"
    /\ Call("SetUnhealthy")

\* pollFn()
Poll ==
    /\ hKind = "disconnect"
    /\ Call("Poll")

\* status, err := streamHealth.Status(ctx)
StatusRead ==
    /\ hKind = "connect"
    /\ Call("Status")

\* reloadConfig()
Reload ==
    /\ hKind = "connect"
    /\ Call("Reload")

\* streamHealth.SetHealthy(ctx)
SetHealthy ==
    /\ hKind = "connect"
    /\ Call("SetHealthy")

\* redisSSEStream.Publish(ctx, ...) of either handler
Publish ==
    /\ hKind \in {"connect", "disconnect"}
    /\ Call("Publish")

\* The range expression of the Close loop: streams() returns a copy of the
\* connected streams.
Snapshot ==
    /\ CurrentStep = "Snapshot"
    /\ ~hHung
    /\ hSnapshot' = connectedStreams
    /\ hToClose' = connectedStreams
    /\ hLog' = Append(hLog, [step |-> "Snapshot", id |-> "", ret |-> "ok"])
    /\ Advance("ok", connectedStreams, hStatus)
    /\ UNCHANGED <<hKind, hHung, hStatus, hCloseCalls, hPublishOk, hBusAtStart,
                   hTimedOut, healthInMem, healthCached, connectedStreams,
                   controlBus>>
    /\ UNCHANGED <<fvars, mvars, cvars, qvars, nvars>>

\* One iteration of the Close loop: pp.Close(streamID) for a stream id of the
\* snapshot, in any order; an error is logged and the loop goes on.  The call
\* takes no context: when it hangs the handler stays in it.
Close ==
    /\ CurrentStep = "Close"
    /\ ~hHung
    /\ \E id \in hToClose, o \in Outcomes :
          /\ hLog' = Append(hLog, [step |-> "Close", id |-> id, ret |-> o])
          /\ hCloseCalls' = [hCloseCalls EXCEPT ![id] = @ + 1]
          /\ hToClose' = hToClose \ {id}
          /\ IF o = "hang"
             THEN hHung' = TRUE /\ hIdx' = hIdx
             ELSE /\ hHung' = FALSE
                  /\ hIdx' = IF EndsHandler("Close", o)
                             THEN Len(HandlerSteps(hKind)) + 1
                             ELSE IF hToClose \ {id} # {} THEN hIdx
                             ELSE NextIdx(HandlerSteps(hKind), hIdx, {}, hStatus)
    /\ UNCHANGED <<hKind, hStatus, hSnapshot, hPublishOk, hBusAtStart,
                   hTimedOut, healthInMem, healthCached, connectedStreams,
                   controlBus>>
    /\ UNCHANGED <<fvars, mvars, cvars, qvars, nvars>>

\* The 15 s timeout of the context of a hung call expires: the call returns
\* an error and the handler goes on.
DeadlineExpires ==
    /\ hHung
    /\ HasDeadline(CurrentStep)
    /\ hHung' = FALSE
    /\ hTimedOut' = hTimedOut \cup {CurrentStep}
    /\ hLog' = [hLog EXCEPT ![Len(hLog)].ret = "err"]
    /\ StepReturns(CurrentStep, "err")
    /\ UNCHANGED <<hKind, hBusAtStart>>
    /\ UNCHANGED <<fvars, mvars, cvars, qvars, nvars>>

\* Mutant: the check passes unless the stream is known to be disconnected.
HealthySaasStream_UnlessDisconnected(statusErr) ==
    ~statusErr /\ healthInMem # StreamStateDisconnected

\* HealthySaasStream: the check the proxy service makes before it accepts a
\* /stream request.
HealthySaasStream(statusErr) ==
    IF statusErr THEN FALSE ELSE healthInMem = StreamStateConnected

\* An SDK opens a stream: the request is accepted while the SaaS stream is
\* healthy and the environment is recorded (SDKStreamConnected).
StreamRequest ==
    /\ \E e \in Envs, statusErr \in BOOLEAN :
          /\ HealthySaasStream(statusErr)
          /\ connectedStreams' = connectedStreams \cup {e}
    /\ UNCHANGED <<hKind, hIdx, hHung, hLog, hStatus, hToClose, hSnapshot,
                   hCloseCalls, hPublishOk, hBusAtStart, hTimedOut, healthInMem,
                   healthCached, controlBus>>
    /\ UNCHANGED <<fvars, mvars, cvars, qvars, nvars>>

NextHandlers ==
    \/ StartHandler
    \/ SetUnhealthy
    \/ Poll
    \/ Snapshot
    \/ Close
    \/ StatusRead
    \/ Reload
    \/ SetHealthy
    \/ Publish
    \/ DeadlineExpires
    \/ StreamRequest

-----------------------------------------------------------------------------
(* Properties of the on-connect / on-disconnect handlers                   *)

\* The positions of a step's calls in the handler's log.
CallsOf(step) == {i \in 1..Len(hLog) : hLog[i].step = step}

\* Every call of step a precedes every call of step b.
AllBefore(a, b) == \A i \in CallsOf(a), j \in CallsOf(b) : i < j

\* Step b is not called unless step a was called before.
Needs(b, a) == \A j \in CallsOf(b) : \E i \in CallsOf(a) : i < j

\* The events the control stream received since the handler started.
BusReceived == SubSeq(controlBus, hBusAtStart + 1, Len(controlBus))

C7_Original_ExactlyOneReceived ==
    (hKind = "disconnect" /\ HandlerDone) =>
        BusReceived = <<[event |-> "stream_action", domain |-> "DISCONNECTED"]>>

\* C7 amended: the on-disconnect handler publishes the DISCONNECTED
\* stream_action event at most once and, when it has returned, has made
\* exactly one publish call; the control stream has received exactly one such
\* event when that publish succeeded and none when it failed.
C7_OnePublishAttempt ==
    hKind = "disconnect" =>
        /\ Cardinality(CallsOf("Publish")) <= 1
        /\ Len(BusReceived) <= 1
        /\ \A i \in 1..Len(BusReceived) :
              BusReceived[i] = [event |-> "stream_action", domain |-> "DISCONNECTED"]
        /\ HandlerDone =>
              /\ Cardinality(CallsOf("Publish")) = 1
              /\ Len(BusReceived) = IF hPublishOk THEN 1 ELSE 0

\* C7 witness: the handler has returned and its one event is on the stream.
C7_Witness ==
    /\ hKind = "disconnect"
    /\ HandlerDone
    /\ hPublishOk
    /\ Cardinality(CallsOf("Publish")) = 1
    /\ BusReceived = <<[event |-> "stream_action", domain |-> "DISCONNECTED"]>>

\* The steps of a handler: one of them is enabled while the handler can go on.
HandlerProgress ==
    \/ SetUnhealthy
    \/ Poll
    \/ Snapshot
    \/ Close
    \/ StatusRead
    \/ Reload
    \/ SetHealthy
    \/ Publish
    \/ DeadlineExpires

\* C8 as stated: whichever call of a handler hangs, the handler can still go
\* on to its later steps.
C8_Original_NoStepStarves ==
    hHung => ENABLED HandlerProgress

\* C8 amended: when a call that carries the 15 s timeout (SetUnhealthy,
\* Status, SetHealthy, Publish) hangs, the later steps of the handler are
\* still executed: the handler returns, unless a call without timeout
\* (pollFn, reloadConfig, pp.Close) hangs, which blocks the steps after it.
C8_DeadlineStepsCannotStarve ==
    (hHung /\ CurrentStep \in {"SetUnhealthy", "Status", "SetHealthy", "Publish"})
        ~> (HandlerDone \/ (hHung /\ CurrentStep \in {"Poll", "Reload", "Close"}))

\* C8 witness: SetUnhealthy ended by its timeout and the handler went on to
\* poll, close a stream and publish.
C8_Witness ==
    /\ hKind = "disconnect"
    /\ HandlerDone
    /\ "SetUnhealthy" \in hTimedOut
    /\ CallsOf("Poll") # {}
    /\ CallsOf("Close") # {}
    /\ hPublishOk

\* C9: SaasStreamOnConnect reloads the config exactly when the state it read
\* is DISCONNECTED: a reload implies that state, and once SetHealthy is
\* called the reload has happened (once, before it) if the state was
\* DISCONNECTED; the publish comes after SetHealthy, and what it puts on the
\* control stream is the CONNECTED stream_action event.
C9_ConnectReloadAndOrder ==
    hKind = "connect" =>
        /\ CallsOf("Reload") # {} => hStatus = "DISCONNECTED"
        /\ (CallsOf("SetHealthy") # {} /\ hStatus = "DISCONNECTED")
              => CallsOf("Reload") # {}
        /\ Cardinality(CallsOf("Reload")) <= 1
        /\ Needs("Reload", "Status") /\ AllBefore("Status", "Reload")
        /\ Needs("SetHealthy", "Status") /\ AllBefore("Reload", "SetHealthy")
        /\ Needs("Publish", "SetHealthy") /\ AllBefore("SetHealthy", "Publish")
        /\ \A i \in 1..Len(BusReceived) :
              BusReceived[i] = [event |-> "stream_action", domain |-> "CONNECTED"]
        /\ HandlerDone =>
              /\ Cardinality(CallsOf("SetHealthy")) = 1
              /\ Cardinality(CallsOf("Publish")) = 1

\* C9 witness: the state read was DISCONNECTED and the handler reloaded, set
\* the health and published, in that order.
C9_Witness ==
    /\ hKind = "connect"
    /\ HandlerDone
    /\ hStatus = "DISCONNECTED"
    /\ Len(hLog) = 4
    /\ hLog[1].step = "Status"
    /\ hLog[2].step = "Reload"
    /\ hLog[3].step = "SetHealthy"
    /\ hLog[4].step = "Publish"
    /\ healthCached = "CONNECTED"
    /\ BusReceived = <<[event |-> "stream_action", domain |-> "CONNECTED"]>>

\* C9 witness of the other direction: the state read was INITIALIZING and the
\* handler has returned without a reload.
C9_WitnessNoReload ==
    /\ hKind = "connect"
    /\ HandlerDone
    /\ hStatus = "INITIALIZING"
    /\ CallsOf("Reload") = {}

-----------------------------------------------------------------------------
(* The memoize cache: makeMarshalFunc and makeUnmarshalFunc over the       *)
(* in-process expiring map.                                                *)

\* The calls of the marshal and unmarshal functions the model makes.
MaxOps == 4

\* An object has a part its JSON carries (pub) and a part it does not carry
\* (priv: unexported or json:"-" fields, zero after a decode).
PubVals == {1, 2}
PrivVals == {0, 1}
Objects == [pub : PubVals, priv : PrivVals]

\* A value jsoniter.Marshal cannot encode (a channel, a func).
Unencodable == [pub |-> 0, priv |-> 0]

\* jsoniter.Marshal: the JSON text of the object as bytes, "{" digit "}";
\* <<>> stands for the error.
Marshal(v) == IF v = Unencodable THEN <<>> ELSE <<123, 48 + v.pub, 125>>

\* The bytes a read can be given: every encoding, and a truncated text.
Truncated == <<123, 49>>
AllBytes == {Marshal(v) : v \in Objects} \cup {Truncated}

WellFormed(b) == Len(b) = 3 /\ b[1] = 123 /\ b[3] = 125 /\ (b[2] - 48) \in PubVals

\* jsoniter.Unmarshal of well-formed bytes: the fields the JSON carries, the
\* others zero.
Unmarshal(b) == [pub |-> b[2] - 48, priv |-> 0]

\* Mutant: every text has the same digest.
MD5_Constant(b) == 7

\* The md5 digest of the bytes, used as the key of the in-process map.
RECURSIVE MD5(_)
MD5(b) == IF b = <<>> THEN 7 ELSE (MD5(SubSeq(b, 1, Len(b) - 1)) * 31 + b[Len(b)]) % 65536

Digests == {MD5(b) : b \in AllBytes}

NoEntry == [pub |-> 0, priv |-> 0, absent |-> TRUE]

\* What a decode into a destination that is not a pointer leaves in i: the
\* generic value (map[string]interface{}) of the JSON text, not an object of
\* the caller's type.
Generic(b) == [pub |-> b[2] - 48, priv |-> 0, generic |-> TRUE]

IsGeneric(entry) == entry \in {Generic(b) : b \in {x \in AllBytes : Len(x) = 3}}

Counters == [hit |-> mHit, miss |-> mMiss, hwu |-> mHitWithUnmarshal, decodes |-> mDecodes]

\* Mutant: the kind check is inverted, a pointer destination is decoded into.
UnmarshalBranch_KindInverted(present, destKind) ==
    IF present
    THEN IF destKind = "ptr" THEN "hit_with_unmarshal" ELSE "hit"
    ELSE "miss"

\* Mutant: the kind of the destination is checked before the lookup.
UnmarshalBranch_KindBeforeLookup(present, destKind) ==
    IF destKind # "ptr"
    THEN "hit_with_unmarshal"
    ELSE IF present THEN "hit" ELSE "miss"

\* The branch the unmarshal function takes: ffCache.Get found the digest and
\* the destination is a pointer (hit), found it and the destination is not a
\* pointer (hit_with_unmarshal), or did not find it (miss).
UnmarshalBranch(present, destKind) ==
    IF present
    THEN IF destKind # "ptr" THEN "hit_with_unmarshal" ELSE "hit"
    ELSE "miss"

InitMemoize ==
    /\ ffCache = [d \in Digests |-> NoEntry]
    /\ mHit = 0
    /\ mMiss = 0
    /\ mWriteMarshal = 0
    /\ mHitWithUnmarshal = 0
    /\ mDecodes = 0
    /\ mPrev = [hit |-> 0, miss |-> 0, hwu |-> 0, decodes |-> 0]
    /\ mLast = [op |-> "none", bytes |-> <<>>, destKind |-> "", branch |-> "",
                err |-> FALSE, live |-> {}, written |-> {}, cold |-> {},
                present |-> FALSE, panic |-> FALSE, dest |-> [pub |-> 0, priv |-> 0]]
    /\ mDest = [pub |-> 0, priv |-> 0]
    /\ mWritten = {}
    /\ mLive = {}
    /\ mCold = {}
    /\ mOps = 0

\* The marshal function: encodes the object, stores digest -> object in the
\* map with the default expiration and counts write_marshal; an encoding
\* error is returned before anything is stored or counted.
MemoMarshal ==
    /\ mOps < MaxOps
    /\ \E v \in Objects \cup {Unencodable} :
          LET data == Marshal(v) IN
          /\ mLast' = [op |-> "write", bytes |-> data, destKind |-> "", branch |-> "",
                       err |-> (data = <<>>), live |-> mLive, written |-> mWritten,
                       cold |-> mCold, present |-> FALSE, panic |-> FALSE,
                       dest |-> mDest]
          /\ IF data = <<>>
             THEN UNCHANGED <<ffCache, mWriteMarshal, mWritten, mLive, mCold>>
             ELSE /\ ffCache' = [ffCache EXCEPT ![MD5(data)] = v]
                  /\ mWriteMarshal' = mWriteMarshal + 1
                  /\ mWritten' = mWritten \cup {data}
                  /\ mLive' = mLive \cup {data}
                  /\ mCold' = mCold \ {data}
    /\ mPrev' = Counters
    /\ mOps' = mOps + 1
    /\ UNCHANGED <<mHit, mMiss, mHitWithUnmarshal, mDecodes, mDest>>
    /\ UNCHANGED <<fvars, hvars, cvars, qvars, nvars>>

\* The unmarshal function, given bytes and a destination that is a pointer
\* to dest or not a pointer.
MemoUnmarshal ==
    /\ mOps < MaxOps
    /\ \E b \in AllBytes, destKind \in {"ptr", "val"}, dest \in Objects :
          LET h == MD5(b)
              present == ffCache[h] # NoEntry
              branch == UnmarshalBranch(present, destKind)
              decodeErr == ~WellFormed(b)
          IN
          /\ mLast' = [op |-> "read", bytes |-> b, destKind |-> destKind,
                       branch |-> branch,
                       err |-> (branch # "hit" /\ decodeErr),
                       live |-> mLive, written |-> mWritten, cold |-> mCold,
                       present |-> present,
                       panic |-> (branch = "hit" /\ IsGeneric(ffCache[h])),
                       dest |-> dest]
          /\ CASE branch = "hit" ->
                    \* the cached object is copied into the destination; a
                    \* cached generic value is not assignable to it (panic)
                    /\ mHit' = mHit + 1
                    /\ mDest' = IF IsGeneric(ffCache[h]) THEN dest ELSE ffCache[h]
                    /\ UNCHANGED <<mMiss, mHitWithUnmarshal, mDecodes, ffCache, mCold>>
               [] branch = "hit_with_unmarshal" ->
                    \* decoded into the function's own copy of the argument
                    /\ mHitWithUnmarshal' = mHitWithUnmarshal + 1
                    /\ mDecodes' = mDecodes + 1
                    /\ mDest' = dest
                    /\ UNCHANGED <<mHit, mMiss, ffCache, mCold>>
               [] OTHER ->
                    \* a full decode; its result is kept for the next read
                    /\ mMiss' = mMiss + 1
                    /\ mDecodes' = mDecodes + 1
                    /\ mDest' = IF decodeErr \/ destKind # "ptr" THEN dest ELSE Unmarshal(b)
                    /\ ffCache' = IF decodeErr THEN ffCache
                                  ELSE [ffCache EXCEPT ![h] =
                                          IF destKind = "ptr" THEN Unmarshal(b)
                                          ELSE Generic(b)]
                    /\ mCold' = IF decodeErr \/ destKind # "ptr" THEN mCold
                                ELSE mCold \cup {b}
                    /\ UNCHANGED <<mHit, mHitWithUnmarshal>>
    /\ mPrev' = Counters
    /\ mOps' = mOps + 1
    /\ UNCHANGED <<mWriteMarshal, mWritten, mLive>>
    /\ UNCHANGED <<fvars, hvars, cvars, qvars, nvars>>

\* An entry of the in-process map reaches its expiration (one minute after it
\* was set) and is gone.
MemoExpire ==
    /\ \E d \in Digests :
          /\ ffCache[d] # NoEntry
          /\ ffCache' = [ffCache EXCEPT ![d] = NoEntry]
          /\ mLive' = {b \in mLive : MD5(b) # d}
          /\ mCold' = {b \in mCold : MD5(b) # d}
    /\ mLast' = [mLast EXCEPT !.op = "expire"]
    /\ mPrev' = Counters
    /\ UNCHANGED <<mHit, mMiss, mWriteMarshal, mHitWithUnmarshal, mDecodes,
                   mDest, mWritten, mOps>>
    /\ UNCHANGED <<fvars, hvars, cvars, qvars, nvars>>

\* The map holds the interface value it was given (ffCache.Set(hash, i)): the
\* caller's pointer after a write of a pointer or a cold read, or a copy that
\* shares its slices and maps with the caller's object.  A caller that
\* changes its object afterwards changes what the map holds.
CallerMutates ==
    /\ mOps < MaxOps
    /\ \E d \in Digests, v \in Objects :
          /\ ffCache[d] # NoEntry
          /\ ~IsGeneric(ffCache[d])
          /\ v # ffCache[d]
          /\ ffCache' = [ffCache EXCEPT ![d] = v]
    /\ mLast' = [mLast EXCEPT !.op = "mutate"]
    /\ mPrev' = Counters
    /\ mOps' = mOps + 1
    /\ UNCHANGED <<mHit, mMiss, mWriteMarshal, mHitWithUnmarshal, mDecodes,
                   mDest, mWritten, mLive, mCold>>
    /\ UNCHANGED <<fvars, hvars, cvars, qvars, nvars>>

NextMemoize ==
    \/ MemoMarshal
    \/ MemoUnmarshal
    \/ MemoExpire

\* The memoize cache with callers that change the objects they passed to a
\* write or received from a read.
NextMemoizeAliased ==
    \/ NextMemoize
    \/ CallerMutates

-----------------------------------------------------------------------------
(* Properties of the memoize cache                                         *)

\* The last call was a read into a pointer destination of bytes in the set.
ReadIntoPointerOf(bytesSet) ==
    /\ mLast.op = "read"
    /\ mLast.destKind = "ptr"
    /\ mLast.bytes \in bytesSet

HitOnly ==
    /\ mHit = mPrev.hit + 1
    /\ mMiss = mPrev.miss
    /\ mHitWithUnmarshal = mPrev.hwu
    /\ mDecodes = mPrev.decodes

\* C10 as stated: a read, into a pointer destination, of bytes the marshal
\* function has produced at any earlier time counts one hit, no miss, no
\* hit_with_unmarshal and decodes nothing.
C10_Original_HitAfterAnyWrite ==
    ReadIntoPointerOf(mLast.written) => HitOnly

\* C10 amended: a read, into a pointer destination, of bytes the marshal
\* function has produced and whose entry has not expired since counts one
\* hit, no miss, no hit_with_unmarshal and decodes nothing.
C10_HitAfterWriteWhileCached ==
    ReadIntoPointerOf(mLast.live) => HitOnly

\* C10 witness: one write, then a read of the same bytes: write_marshal 1,
\* hit 1, miss 0, nothing decoded.
C10_Witness ==
    /\ ReadIntoPointerOf(mLast.live)
    /\ mWriteMarshal = 1
    /\ mHit = 1
    /\ mMiss = 0
    /\ mHitWithUnmarshal = 0
    /\ mDecodes = 0
    /\ mDest = [pub |-> 1, priv |-> 1]

\* The last call was a read of bytes whose digest was not in the map.
ColdRead == mLast.op = "read" /\ ~mLast.present

MissOnly ==
    /\ mMiss = mPrev.miss + 1
    /\ mHit = mPrev.hit
    /\ mHitWithUnmarshal = mPrev.hwu
    /\ mDecodes = mPrev.decodes + 1

\* C11 as stated: every cold read counts one miss and no hit, leaves the
\* decoded object in the caller's destination and stores it under the digest.
C11_Original_ColdReadStores ==
    ColdRead =>
        /\ MissOnly
        /\ mDest = Unmarshal(mLast.bytes)
        /\ ffCache[MD5(mLast.bytes)] # NoEntry

\* C11 amended: every cold read counts one miss, no hit, and one decode; when
\* the bytes decode and the destination is a pointer, the destination holds
\* the decoded object and the digest maps to it, and the next read of the
\* same bytes into a pointer before the entry expires is a hit that returns
\* that object without a decode; when the decode fails nothing is stored.
C11_ColdReadDecodesAndStores ==
    /\ ColdRead =>
          /\ MissOnly
          /\ mLast.err <=> ~WellFormed(mLast.bytes)
          /\ mLast.err => (ffCache[MD5(mLast.bytes)] = NoEntry /\ mDest = mLast.dest)
          /\ (~mLast.err /\ mLast.destKind = "ptr") =>
                /\ mDest = Unmarshal(mLast.bytes)
                /\ ffCache[MD5(mLast.bytes)] = Unmarshal(mLast.bytes)
                /\ mLast.bytes \in mCold
    /\ ReadIntoPointerOf(mLast.cold) =>
          /\ HitOnly
          /\ ~mLast.panic
          /\ mDest = Unmarshal(mLast.bytes)

\* C11 witness: two reads of the same bytes into a pointer, the first a miss
\* that decoded them, the second a hit.
C11_Witness ==
    /\ ReadIntoPointerOf(mLast.cold)
    /\ mWriteMarshal = 0
    /\ mMiss = 1
    /\ mHit = 1
    /\ mDecodes = 1
    /\ mDest = [pub |-> 2, priv |-> 0]
    /\ mLast.dest # mDest

\* C12: over any sequence of writes and reads, the decodes made equal miss +
\* hit_with_unmarshal; a read increments exactly one of hit, miss and
\* hit_with_unmarshal, by one; a read counted as hit decodes nothing; a read
\* counted as hit_with_unmarshal found the digest and had a destination that
\* is not a pointer; a write changes none of the three.
C12_CounterInvariant ==
    /\ mDecodes = mMiss + mHitWithUnmarshal
    /\ mHit + mMiss + mHitWithUnmarshal + mWriteMarshal <= mOps
    /\ mLast.op = "read" =>
          /\ (mHit - mPrev.hit) + (mMiss - mPrev.miss)
                + (mHitWithUnmarshal - mPrev.hwu) = 1
          /\ mHit - mPrev.hit \in {0, 1}
          /\ mMiss - mPrev.miss \in {0, 1}
          /\ mHitWithUnmarshal - mPrev.hwu \in {0, 1}
          /\ mHit = mPrev.hit + 1 => mDecodes = mPrev.decodes
          /\ mHitWithUnmarshal = mPrev.hwu + 1 =>
                (mLast.present /\ mLast.destKind # "ptr")
    /\ mLast.op = "write" =>
          /\ mHit = mPrev.hit
          /\ mMiss = mPrev.miss
          /\ mHitWithUnmarshal = mPrev.hwu
          /\ mDecodes = mPrev.decodes

\* C12 witness: reads of all three kinds have been counted, one each, after
\* one write; the last one was counted as hit_with_unmarshal.
C12_Witness ==
    /\ mOps = 4
    /\ mWriteMarshal = 1
    /\ mHit = 1
    /\ mMiss = 1
    /\ mHitWithUnmarshal = 1
    /\ mDecodes = 2
    /\ mLast.op = "read"
    /\ mLast.destKind = "val"
    /\ mLast.present

-----------------------------------------------------------------------------
(* Config.Populate, Config.FetchAndPopulate and the Refresher's handling   *)
(* of proxy messages, over the auth, flag and segment repos.               *)

\* The operations (FetchAndPopulate calls and messages handled) of a run.
MaxMessages == 2

\* API keys, each belonging to one environment upstream.
Keys == {"k1", "k2", "k3"}
KeyOwner(k) == IF k = "k3" THEN "e2" ELSE "e1"
OwnedKeys(e) == {k \in Keys : KeyOwner(k) = e}

\* domain.NewAuthAPIKey: the cache key of an API key.
NewAuthAPIKey(k) == "auth-key-" \o k
AuthAPIKeys == {NewAuthAPIKey(k) : k \in Keys}
AuthKeysOf(ks) == {NewAuthAPIKey(k) : k \in ks}

NoEnv == ""

\* domain.Environments: one environment of a ProxyConfig page, as upstream
\* can return it: with keys, flags and segments; with keys and other flags
\* but no segments; with segments only.
EnvironmentsOf(e) ==
    {[ID |-> e, APIKeys |-> OwnedKeys(e), FeatureConfigs |-> <<"f1">>, Segments |-> <<"s1">>],
     [ID |-> e, APIKeys |-> OwnedKeys(e), FeatureConfigs |-> <<"f2">>, Segments |-> <<>>],
     [ID |-> e, APIKeys |-> {}, FeatureConfigs |-> <<>>, Segments |-> <<"s1">>]}

\* What PageProxyConfig can return for a set of environments: the pages,
\* flattened as Populate's two loops flatten them, as environment id -> entry.
ProxyConfigsOver(S) == {c \in [S -> UNION {EnvironmentsOf(e) : e \in S}] :
                           \A e \in S : c[e].ID = e}

NoProxyConfig == <<>>

NoKeyList == [present |-> FALSE, keys |-> {}]

\* The repos, as one value.
Repos == [auth |-> authRepo, keys |-> apiKeyList, flags |-> flagRepo,
          segments |-> segmentRepo]

\* authRepo.Add: the records of the given API keys map to the environment.
AuthRepoAdd(repo, ks, e) ==
    [a \in AuthAPIKeys |-> IF a \in AuthKeysOf(ks) THEN e ELSE repo[a]]

\* authRepo.Remove: the given records are gone.
AuthRepoRemove(repo, as) ==
    [a \in AuthAPIKeys |-> IF a \in as THEN NoEnv ELSE repo[a]]

\* The writes of populate, in order.
PopulateSteps == <<"authRepo.Add", "authRepo.AddAPIConfigsForEnvironment",
                   "flagRepo.Add", "segmentRepo.Add">>

PopSend == Len(PopulateSteps) + 1
PopDone == Len(PopulateSteps) + 2

\* Mutant: the segment config is written whatever its length, the flag
\* config never.
PopulateWrites_NoFlags(env, i) ==
    CASE i = 1 -> env.APIKeys # {}
      [] i = 2 -> env.APIKeys # {}
      [] i = 3 -> FALSE
      [] OTHER -> env.Segments # <<>>

\* The len(...) > 0 checks of populate: the write i is made for env.
PopulateWrites(env, i) ==
    CASE i = 1 -> env.APIKeys # {}
      [] i = 2 -> env.APIKeys # {}
      [] i = 3 -> env.FeatureConfigs # <<>>
      [] OTHER -> env.Segments # <<>>

\* The next write populate makes for env from step i on; PopSend when none.
RECURSIVE NextPopStep(_, _)
NextPopStep(env, i) ==
    IF i > Len(PopulateSteps) THEN PopSend
    ELSE IF PopulateWrites(env, i) THEN i
    ELSE NextPopStep(env, i + 1)

\* A failed write ends populate: its error is what the goroutine sends.
AfterFailedWrite(env, i) == PopSend

NoReturn == [state |-> "none", err |-> "nil", env |-> ""]

\* Mutant: Populate returns nil whatever it received.
PopulateReturn_SwallowsError(e, err) == [state |-> "returned", err |-> "nil", env |-> ""]

\* What Populate returns on receiving err from the goroutine of e.
PopulateReturn(e, err) == [state |-> "returned", err |-> err, env |-> e]

NoResult == [op |-> "none", domain |-> "", event |-> "", envs |-> <<>>, key |-> "",
             err |-> "nil", repos |-> <<>>, fetched |-> <<>>]

IdleOp == [kind |-> "none", domain |-> "", event |-> "", envs |-> <<>>, key |-> ""]

InitConfig ==
    /\ authRepo = [a \in AuthAPIKeys |-> NoEnv]
    /\ apiKeyList = [e \in Envs |-> NoKeyList]
    /\ flagRepo = [e \in Envs |-> <<>>]
    /\ segmentRepo = [e \in Envs |-> <<>>]
    /\ proxyConfig = NoProxyConfig
    /\ cOp = IdleOp
    /\ cpc = "idle"
    /\ cIdx = 0
    /\ cFetched = NoProxyConfig
    /\ cResult = NoResult
    /\ cStart = [repos |-> <<>>, calls |-> 0]
    /\ cUpstreamCalls = 0
    /\ cOps = 0
    /\ pEnvs = NoProxyConfig
    /\ gpc = [e \in Envs |-> PopDone]
    /\ gErr = [e \in Envs |-> "nil"]
    /\ gCalls = [e \in Envs |-> 0]
    /\ pRet = NoReturn
    /\ keyEvents = [k \in Keys |-> "none"]

\* No goroutine of an earlier Populate is still writing.
GoroutinesQuiet == \A e \in Envs : gpc[e] \in {PopSend, PopDone}

\* An operation begins.
Begin(op) ==
    /\ cpc = "idle"
    /\ cOps < MaxMessages
    /\ GoroutinesQuiet
    /\ cOps' = cOps + 1
    /\ cOp' = op
    /\ cIdx' = 1
    /\ cFetched' = NoProxyConfig
    /\ cStart' = [repos |-> Repos, calls |-> cUpstreamCalls]

\* Populate is entered with cfg staged: one goroutine per environment.
PopulateStart(cfg) ==
    /\ pEnvs' = cfg
    /\ gpc' = [e \in Envs |-> IF e \in DOMAIN cfg THEN NextPopStep(cfg[e], 1)
                              ELSE PopDone]
    /\ gErr' = [e \in Envs |-> "nil"]
    /\ gCalls' = [e \in Envs |-> 0]
    /\ pRet' = [state |-> "running", err |-> "nil", env |-> ""]

Merge(f, g) == [e \in DOMAIN f \cup DOMAIN g |-> IF e \in DOMAIN g THEN g[e] ELSE f[e]]

\* The operation returns err: the repos at this moment are recorded.
Return(err, fetched, repos) ==
    /\ cpc' = "idle"
    /\ cResult' = [op |-> cOp.kind, domain |-> cOp.domain, event |-> cOp.event,
                   envs |-> cOp.envs, key |-> cOp.key, err |-> err,
                   repos |-> repos, fetched |-> fetched]

\* The goroutine of environment e makes its next write: populate's calls of
\* authRepo.Add, AddAPIConfigsForEnvironment, flagRepo.Add, segmentRepo.Add.
\* A failed authRepo.Add may have written some of its records.
PopulateWrite ==
    /\ \E e \in DOMAIN pEnvs, ok \in BOOLEAN :
          LET env == pEnvs[e]
              i == gpc[e]
          IN
          /\ i \in 1..Len(PopulateSteps)
          /\ gCalls' = [gCalls EXCEPT ![e] = @ + 1]
          /\ IF ok
             THEN /\ gpc' = [gpc EXCEPT ![e] = NextPopStep(env, i + 1)]
                  /\ gErr' = gErr
             ELSE /\ gpc' = [gpc EXCEPT ![e] = AfterFailedWrite(env, i)]
                  /\ gErr' = [gErr EXCEPT ![e] = PopulateSteps[i]]
          /\ CASE i = 1 ->
                    /\ \E done \in SUBSET env.APIKeys :
                          /\ ok => done = env.APIKeys
                          /\ ~ok => done # env.APIKeys
                          /\ authRepo' = AuthRepoAdd(authRepo, done, e)
                    /\ UNCHANGED <<apiKeyList, flagRepo, segmentRepo>>
               [] i = 2 ->
                    /\ apiKeyList' = IF ok
                          THEN [apiKeyList EXCEPT ![e] =
                                   [present |-> TRUE, keys |-> AuthKeysOf(env.APIKeys)]]
                          ELSE apiKeyList
                    /\ UNCHANGED <<authRepo, flagRepo, segmentRepo>>
               [] i = 3 ->
                    /\ flagRepo' = IF ok THEN [flagRepo EXCEPT ![e] = env.FeatureConfigs]
                                   ELSE flagRepo
                    /\ UNCHANGED <<authRepo, apiKeyList, segmentRepo>>
               [] OTHER ->
                    /\ segmentRepo' = IF ok THEN [segmentRepo EXCEPT ![e] = env.Segments]
                                      ELSE segmentRepo
                    /\ UNCHANGED <<authRepo, apiKeyList, flagRepo>>
    /\ UNCHANGED <<proxyConfig, cOp, cpc, cIdx, cFetched, cResult, cStart,
                   cUpstreamCalls, cOps, pEnvs, pRet, keyEvents>>
    /\ UNCHANGED <<fvars, hvars, mvars, qvars, nvars>>

\* Populate's loop receives what a goroutine sends on errchan: a nil is
\* dropped, the first non-nil error is returned at once.
PopulateReceive ==
    /\ pRet.state = "running"
    /\ \E e \in DOMAIN pEnvs :
          /\ gpc[e] = PopSend
          /\ gpc' = [gpc EXCEPT ![e] = PopDone]
          /\ pRet' = IF gErr[e] = "nil" THEN pRet ELSE PopulateReturn(e, gErr[e])
    /\ UNCHANGED <<authRepo, apiKeyList, flagRepo, segmentRepo, proxyConfig, cOp, cpc,
                   cIdx, cFetched, cResult, cStart, cUpstreamCalls, cOps, pEnvs,
                   gErr, gCalls, keyEvents>>
    /\ UNCHANGED <<fvars, hvars, mvars, qvars, nvars>>

\* All goroutines are done: wg.Wait returns, errchan is closed, the loop ends
\* and Populate returns nil.
PopulateClose ==
    /\ pRet.state = "running"
    /\ \A e \in DOMAIN pEnvs : gpc[e] = PopDone
    /\ pRet' = [state |-> "returned", err |-> "nil", env |-> ""]
    /\ UNCHANGED <<authRepo, apiKeyList, flagRepo, segmentRepo, proxyConfig, cOp, cpc,
                   cIdx, cFetched, cResult, cStart, cUpstreamCalls, cOps, pEnvs,
                   gpc, gErr, gCalls, keyEvents>>
    /\ UNCHANGED <<fvars, hvars, mvars, qvars, nvars>>

\* Config.FetchAndPopulate up to its call of Populate: authenticate,
\* retrieveConfig, inventory.Cleanup and notifySDKs each return an error or
\* go on; the fetched config is staged and Populate is entered.
FetchAndPopulate ==
    /\ Begin([kind |-> "FetchAndPopulate", domain |-> "", event |-> "", envs |-> <<>>,
               key |-> ""])
    /\ \E failed \in {"authenticate", "retrieveConfig", "Cleanup", "notifySDKs", "none"} :
          /\ cUpstreamCalls' = cUpstreamCalls + (IF failed = "authenticate" THEN 1 ELSE 2)
          /\ IF failed # "none"
             THEN /\ Return(failed, NoProxyConfig, Repos)
                  /\ UNCHANGED <<proxyConfig, pEnvs, gpc, gErr, gCalls, pRet>>
             ELSE \E S \in SUBSET Envs : \E cfg \in ProxyConfigsOver(S) :
                     /\ proxyConfig' = cfg
                     /\ PopulateStart(cfg)
                     /\ cpc' = "populate"
                     /\ cResult' = NoResult
    /\ keyEvents' = [k \in Keys |-> "unknown"]
    /\ UNCHANGED <<authRepo, apiKeyList, flagRepo, segmentRepo>>
    /\ UNCHANGED <<fvars, hvars, mvars, qvars, nvars>>

\* FetchAndPopulate returns what Populate returned.
FetchAndPopulateReturn ==
    /\ cOp.kind = "FetchAndPopulate"
    /\ cpc = "populate"
    /\ pRet.state = "returned"
    /\ Return(pRet.err, pEnvs, Repos)
    /\ UNCHANGED <<authRepo, apiKeyList, flagRepo, segmentRepo, proxyConfig, cOp, cIdx,
                   cFetched, cStart, cUpstreamCalls, cOps, pEnvs, gpc, gErr, gCalls, pRet,
                   keyEvents>>
    /\ UNCHANGED <<fvars, hvars, mvars, qvars, nvars>>

\* The environments lists of environment-added / environment-removed messages.
EnvLists == {<<"e1">>, <<"e2">>, <<"e1", "e2">>, <<"e2", "e1">>}

ProxyEvent(event, envs, key) ==
    [kind |-> event, domain |-> MsgDomainProxy, event |-> event, envs |-> envs, key |-> key]

\* Refresher.HandleMessage for the messages that touch no repo: an unexpected
\* domain or event (an error), a flag or target-segment event and
\* proxy-key-deleted (nil).
HandleMessageNoRepo ==
    /\ \E msg \in Messages :
          /\ ~(msg.domain = MsgDomainProxy /\
               msg.event \in {EventEnvironmentAdded, EventEnvironmentRemoved,
                              EventAPIKeyAdded, EventAPIKeyRemoved})
          /\ Begin([kind |-> "dispatch", domain |-> msg.domain, event |-> msg.event,
                    envs |-> <<>>, key |-> ""])
          /\ cpc' = "idle"
          /\ cResult' = [op |-> "dispatch", domain |-> msg.domain, event |-> msg.event,
                         envs |-> <<>>, key |-> "",
                         err |-> RefresherHandleMessage(msg, FALSE),
                         repos |-> Repos, fetched |-> NoProxyConfig]
    /\ UNCHANGED <<authRepo, apiKeyList, flagRepo, segmentRepo, proxyConfig,
                   cUpstreamCalls, pEnvs, gpc, gErr, gCalls, pRet, keyEvents>>
    /\ UNCHANGED <<fvars, hvars, mvars, qvars, nvars>>

\* Mutant: only the first environment of the message is fetched.
EnvsToFetch_FirstOnly(environments) == <<environments[1]>>

\* The environments handleAddEnvironmentEvent ranges over.
EnvsToFetch(environments) == environments

\* handleAddEnvironmentEvent is entered.
HandleAddEnvironmentEvent ==
    /\ \E envs \in EnvLists : Begin(ProxyEvent(EventEnvironmentAdded, envs, ""))
    /\ cpc' = "fetch"
    /\ keyEvents' = [k \in Keys |-> "unknown"]
    /\ cResult' = NoResult
    /\ UNCHANGED <<authRepo, apiKeyList, flagRepo, segmentRepo, proxyConfig,
                   cUpstreamCalls, pEnvs, gpc, gErr, gCalls, pRet>>
    /\ UNCHANGED <<fvars, hvars, mvars, qvars, nvars>>

\* One turn of its loop up to Populate: PageProxyConfig for the environment;
\* on an error the handler returns it (and the deferred SetProxyConfig clears
\* the staged config); otherwise the pages are staged and Populate is entered.
AddEnvironmentFetch ==
    /\ cOp.kind = EventEnvironmentAdded
    /\ cpc = "fetch"
    /\ cUpstreamCalls' = cUpstreamCalls + 1
    /\ LET e == EnvsToFetch(cOp.envs)[cIdx] IN
       \E ok \in BOOLEAN :
          IF ok
          THEN \E cfg \in ProxyConfigsOver({e}) :
                  /\ proxyConfig' = cfg
                  /\ cFetched' = Merge(cFetched, cfg)
                  /\ PopulateStart(cfg)
                  /\ cpc' = "populate"
                  /\ cResult' = cResult
          ELSE /\ Return("PageProxyConfig", cFetched, Repos)
               /\ proxyConfig' = NoProxyConfig
               /\ UNCHANGED <<cFetched, pEnvs, gpc, gErr, gCalls, pRet>>
    /\ UNCHANGED <<authRepo, apiKeyList, flagRepo, segmentRepo, cOp, cIdx, cStart,
                   cOps, keyEvents>>
    /\ UNCHANGED <<fvars, hvars, mvars, qvars, nvars>>

\* Populate has returned: its error is returned, or the loop goes on with
\* the next environment, or the handler returns nil after the last one; on
\* each return the deferred SetProxyConfig clears the staged config.
AddEnvironmentPopulated ==
    /\ cOp.kind = EventEnvironmentAdded
    /\ cpc = "populate"
    /\ pRet.state = "returned"
    /\ IF pRet.err # "nil"
       THEN /\ Return(pRet.err, cFetched, Repos)
            /\ proxyConfig' = NoProxyConfig
            /\ cIdx' = cIdx
       ELSE IF cIdx = Len(EnvsToFetch(cOp.envs))
       THEN /\ Return("nil", cFetched, Repos)
            /\ proxyConfig' = NoProxyConfig
            /\ cIdx' = cIdx
       ELSE /\ cpc' = "fetch"
            /\ cIdx' = cIdx + 1
            /\ UNCHANGED <<proxyConfig, cResult>>
    /\ UNCHANGED <<authRepo, apiKeyList, flagRepo, segmentRepo, cOp, cFetched,
                   cStart, cUpstreamCalls, cOps, pEnvs, gpc, gErr, gCalls, pRet, keyEvents>>
    /\ UNCHANGED <<fvars, hvars, mvars, qvars, nvars>>

\* Mutant: the segment collection is not removed.
RemoveSteps_NoSegments == <<"authRepo.RemoveAllKeysForEnvironment", "flagRepo.Remove">>

\* The calls handleRemoveEnvironmentEvent makes for one environment, in order.
RemoveSteps == <<"authRepo.RemoveAllKeysForEnvironment", "flagRepo.Remove",
                 "segmentRepo.Remove">>

StepIndex(steps, name) == CHOOSE i \in 1..Len(steps) : steps[i] = name

\* The auth records that map to environment e.
AuthKeysMappedTo(repo, e) == {a \in AuthAPIKeys : repo[a] = e}

\* handleRemoveEnvironmentEvent is entered.
HandleRemoveEnvironmentEvent ==
    /\ \E envs \in EnvLists : Begin(ProxyEvent(EventEnvironmentRemoved, envs, ""))
    /\ cpc' = RemoveSteps[1]
    /\ keyEvents' = [k \in Keys |-> "unknown"]
    /\ cResult' = NoResult
    /\ UNCHANGED <<authRepo, apiKeyList, flagRepo, segmentRepo, proxyConfig,
                   cUpstreamCalls, pEnvs, gpc, gErr, gCalls, pRet>>
    /\ UNCHANGED <<fvars, hvars, mvars, qvars, nvars>>

\* One call of its loop: RemoveAllKeysForEnvironment (every auth record of
\* the environment and its key list are gone; a failed call may have removed
\* some records), flagRepo.Remove, segmentRepo.Remove.  An error is returned
\* at once; after the last call of the last environment nil is returned.
RemoveEnvironmentStep ==
    /\ cOp.kind = EventEnvironmentRemoved
    /\ cpc \in {RemoveSteps[i] : i \in 1..Len(RemoveSteps)}
    /\ LET e == cOp.envs[cIdx]
           i == StepIndex(RemoveSteps, cpc)
       IN
       \E ok \in BOOLEAN :
          /\ CASE i = 1 ->
                    /\ \E gone \in SUBSET AuthKeysMappedTo(authRepo, e) :
                          /\ ok => gone = AuthKeysMappedTo(authRepo, e)
                          /\ authRepo' = AuthRepoRemove(authRepo, gone)
                    /\ apiKeyList' = IF ok THEN [apiKeyList EXCEPT ![e] = NoKeyList]
                                     ELSE apiKeyList
                    /\ UNCHANGED <<flagRepo, segmentRepo>>
               [] i = 2 ->
                    /\ flagRepo' = IF ok THEN [flagRepo EXCEPT ![e] = <<>>] ELSE flagRepo
                    /\ UNCHANGED <<authRepo, apiKeyList, segmentRepo>>
               [] OTHER ->
                    /\ segmentRepo' = IF ok THEN [segmentRepo EXCEPT ![e] = <<>>]
                                      ELSE segmentRepo
                    /\ UNCHANGED <<authRepo, apiKeyList, flagRepo>>
          /\ IF ~ok
             THEN /\ Return(cpc, NoProxyConfig,
                            [auth |-> authRepo', keys |-> apiKeyList',
                             flags |-> flagRepo', segments |-> segmentRepo'])
                  /\ cIdx' = cIdx
             ELSE IF i < Len(RemoveSteps)
             THEN /\ cpc' = RemoveSteps[i + 1]
                  /\ UNCHANGED <<cIdx, cResult>>
             ELSE IF cIdx < Len(cOp.envs)
             THEN /\ cpc' = RemoveSteps[1]
                  /\ cIdx' = cIdx + 1
                  /\ cResult' = cResult
             ELSE /\ Return("nil", NoProxyConfig,
                            [auth |-> authRepo', keys |-> apiKeyList',
                             flags |-> flagRepo', segments |-> segmentRepo'])
                  /\ cIdx' = cIdx
    /\ UNCHANGED <<proxyConfig, cOp, cFetched, cStart, cUpstreamCalls, cOps, pEnvs, gpc,
                   gErr, gCalls, pRet, keyEvents>>
    /\ UNCHANGED <<fvars, hvars, mvars, qvars, nvars>>

\* The cache key handleRemoveApiKeyEvent builds for the record it removes.
RemovedKeyName(k) == "auth-key-" \o k

\* Mutant: the key list is patched first.
KeySteps_PatchFirst == <<"PatchAPIConfigForEnvironment", "authRepo">>

\* The calls of handleAddApiKeyEvent and handleRemoveApiKeyEvent, in order:
\* authRepo.Add (resp. authRepo.Remove), then PatchAPIConfigForEnvironment.
KeySteps == <<"authRepo", "PatchAPIConfigForEnvironment">>

\* handleAddApiKeyEvent / handleRemoveApiKeyEvent is entered, with
\* msg.Environments[0] and msg.APIKey.
HandleApiKeyEvent ==
    /\ \E k \in Keys, ev \in {EventAPIKeyAdded, EventAPIKeyRemoved} :
          Begin(ProxyEvent(ev, <<KeyOwner(k)>>, k))
    /\ cpc' = KeySteps[1]
    /\ cResult' = NoResult
    /\ UNCHANGED <<authRepo, apiKeyList, flagRepo, segmentRepo, proxyConfig,
                   cUpstreamCalls, pEnvs, gpc, gErr, gCalls, pRet, keyEvents>>
    /\ UNCHANGED <<fvars, hvars, mvars, qvars, nvars>>

\* msg.Environments[0]: the index expression of handleProxyMessage panics
\* when the list is empty.
FirstEnvironment(environments) ==
    IF Len(environments) >= 1 THEN environments[1] ELSE "panic: index out of range"

\* An api-key-added / api-key-removed message whose environments list is
\* empty: the argument msg.Environments[0] is evaluated before the handler is
\* called, the panic unwinds HandleMessage and the goroutine of the
\* subscription that delivered the message.
HandleApiKeyEventNoEnvironments ==
    /\ \E k \in Keys, ev \in {EventAPIKeyAdded, EventAPIKeyRemoved} :
          /\ Begin(ProxyEvent(ev, <<>>, k))
          /\ cResult' = [op |-> ev, domain |-> MsgDomainProxy, event |-> ev,
                         envs |-> <<>>, key |-> k, err |-> FirstEnvironment(<<>>),
                         repos |-> Repos, fetched |-> NoProxyConfig]
    /\ cpc' = "panicked"
    /\ UNCHANGED <<authRepo, apiKeyList, flagRepo, segmentRepo, proxyConfig,
                   cUpstreamCalls, pEnvs, gpc, gErr, gCalls, pRet, keyEvents>>
    /\ UNCHANGED <<fvars, hvars, mvars, qvars, nvars>>

\* One call of the handler; a failed call returns its error at once.
ApiKeyStep ==
    /\ cOp.kind \in {EventAPIKeyAdded, EventAPIKeyRemoved}
    /\ cpc \in {KeySteps[i] : i \in 1..Len(KeySteps)}
    /\ LET e == FirstEnvironment(cOp.envs)
           k == cOp.key
           i == StepIndex(KeySteps, cpc)
           added == cOp.kind = EventAPIKeyAdded
       IN
       \E ok \in BOOLEAN :
          /\ IF cpc = "authRepo"
             THEN /\ authRepo' = IF ~ok THEN authRepo
                                 ELSE IF added THEN AuthRepoAdd(authRepo, {k}, e)
                                 ELSE AuthRepoRemove(authRepo, {RemovedKeyName(k)})
                  /\ apiKeyList' = apiKeyList
             ELSE /\ apiKeyList' = IF ~ok THEN apiKeyList
                       ELSE IF added
                       THEN [apiKeyList EXCEPT ![e] =
                               [present |-> TRUE, keys |-> @.keys \cup {NewAuthAPIKey(k)}]]
                       ELSE [apiKeyList EXCEPT ![e] =
                               [present |-> @.present, keys |-> @.keys \ {NewAuthAPIKey(k)}]]
                  /\ authRepo' = authRepo
          /\ IF ok /\ i < Len(KeySteps)
             THEN /\ cpc' = KeySteps[i + 1]
                  /\ UNCHANGED <<cResult, keyEvents>>
             ELSE /\ Return(IF ok THEN "nil" ELSE cpc, NoProxyConfig,
                            [auth |-> authRepo', keys |-> apiKeyList',
                             flags |-> flagRepo, segments |-> segmentRepo])
                  /\ keyEvents' = [keyEvents EXCEPT ![k] =
                                      IF ~ok THEN "unknown"
                                      ELSE IF added THEN "added" ELSE "removed"]
    /\ UNCHANGED <<flagRepo, segmentRepo, proxyConfig, cOp, cIdx, cFetched, cStart,
                   cUpstreamCalls, cOps, pEnvs, gpc, gErr, gCalls, pRet>>
    /\ UNCHANGED <<fvars, hvars, mvars, qvars, nvars>>

\* FetchAndPopulate calls (startup, reload on connect and on disconnect).
NextPopulate ==
    \/ FetchAndPopulate
    \/ FetchAndPopulateReturn
    \/ PopulateWrite
    \/ PopulateReceive
    \/ PopulateClose

\* The messages the Refresher handles, one after the other.
NextRefresher ==
    \/ PopulateWrite
    \/ PopulateReceive
    \/ PopulateClose
    \/ HandleMessageNoRepo
    \/ HandleAddEnvironmentEvent
    \/ AddEnvironmentFetch
    \/ AddEnvironmentPopulated
    \/ HandleRemoveEnvironmentEvent
    \/ RemoveEnvironmentStep
    \/ HandleApiKeyEvent
    \/ ApiKeyStep

\* The same, with the api-key messages upstream can also send: those whose
\* environments list is empty.
NextRefresherAnyMessage ==
    \/ NextRefresher
    \/ HandleApiKeyEventNoEnvironments

-----------------------------------------------------------------------------
(* Properties of Config.Populate                                           *)

\* Everything populate has to write for the environment is in the repos r:
\* the auth record of each of its API keys maps to it and its key list holds
\* those keys, its flag config and its segment config are the given ones.
\* (populate makes no call for an empty key list, flag list or segment list.)
Written(r, env) ==
    /\ env.APIKeys # {} =>
          /\ \A k \in env.APIKeys : r.auth[NewAuthAPIKey(k)] = env.ID
          /\ r.keys[env.ID] = [present |-> TRUE, keys |-> AuthKeysOf(env.APIKeys)]
    /\ env.FeatureConfigs # <<>> => r.flags[env.ID] = env.FeatureConfigs
    /\ env.Segments # <<>> => r.segments[env.ID] = env.Segments

\* The number of calls populate makes for env up to and including step i.
RECURSIVE CallsUpTo(_, _)
CallsUpTo(env, i) ==
    IF i = 0 THEN 0
    ELSE CallsUpTo(env, i - 1) +
         (IF (i \in {1, 2} /\ env.APIKeys # {}) \/ (i = 3 /\ env.FeatureConfigs # <<>>)
             \/ (i = 4 /\ env.Segments # <<>>) THEN 1 ELSE 0)

\* C13: when Populate has returned nil, every environment of the staged
\* config has its auth records, its API-key list, its flag config and its
\* segment config in the repos.
C13_PopulateSuccessMeansWritten ==
    (pRet.state = "returned" /\ pRet.err = "nil") =>
        \A e \in DOMAIN pEnvs :
            /\ Written(Repos, pEnvs[e])
            /\ gCalls[e] = CallsUpTo(pEnvs[e], Len(PopulateSteps))

\* C13 witness: Populate returned nil for two environments, one with keys,
\* flags and segments, one with keys and flags only, and all of it is there.
C13_Witness ==
    /\ pRet.state = "returned"
    /\ pRet.err = "nil"
    /\ DOMAIN pEnvs = {"e1", "e2"}
    /\ pEnvs["e1"].Segments = <<"s1">>
    /\ pEnvs["e2"].FeatureConfigs = <<"f2">>
    /\ authRepo = [a \in AuthAPIKeys |->
                      IF a = "auth-key-k3" THEN "e2" ELSE "e1"]
    /\ apiKeyList["e1"].keys = {"auth-key-k1", "auth-key-k2"}
    /\ flagRepo = [e \in Envs |-> IF e = "e1" THEN <<"f1">> ELSE <<"f2">>]
    /\ segmentRepo["e1"] = <<"s1">>
    /\ gCalls = [e \in Envs |-> IF e = "e1" THEN 4 ELSE 3]

\* C14: Populate returns nil exactly when every environment's populate
\* returned nil; an error it returns is the error of one environment's
\* populate, the first non-nil one its loop received; and a populate whose
\* write failed made no further write and returned that write's error.
C14_PopulateErrors ==
    /\ pRet.state = "returned" =>
          /\ pRet.err = "nil" <=>
                \A e \in DOMAIN pEnvs : gpc[e] = PopDone /\ gErr[e] = "nil"
          /\ pRet.err # "nil" =>
                /\ pRet.env \in DOMAIN pEnvs
                /\ gErr[pRet.env] = pRet.err
                /\ gpc[pRet.env] = PopDone
                /\ \A e \in DOMAIN pEnvs \ {pRet.env} :
                      gpc[e] = PopDone => gErr[e] = "nil"
    /\ \A e \in DOMAIN pEnvs :
          gErr[e] # "nil" =>
              /\ gpc[e] \in {PopSend, PopDone}
              /\ \E i \in 1..Len(PopulateSteps) :
                    /\ gErr[e] = PopulateSteps[i]
                    /\ gCalls[e] = CallsUpTo(pEnvs[e], i)

\* C14 witness: Populate returned the flagRepo.Add error of e1, whose segment
\* config was then not written, while e2's populate had returned nil.
C14_Witness ==
    /\ pRet = [state |-> "returned", err |-> "flagRepo.Add", env |-> "e1"]
    /\ DOMAIN pEnvs = {"e1", "e2"}
    /\ pEnvs["e1"].Segments = <<"s1">>
    /\ gCalls["e1"] = 3
    /\ segmentRepo["e1"] = <<>>
    /\ gpc["e2"] = PopDone
    /\ gErr["e2"] = "nil"

-----------------------------------------------------------------------------
(* Properties of the Refresher's proxy events                              *)

Listed(envs) == {envs[i] : i \in 1..Len(envs)}

\* C15: when HandleMessage has returned nil for environment-added, every
\* listed environment was fetched and what was fetched for it is in the
\* repos: its keys' auth records map to it, its key list, its flag config
\* and its segment config are the fetched ones; the staged config is cleared.
C15_EnvironmentAdded ==
    cResult.op = EventEnvironmentAdded =>
        /\ proxyConfig = NoProxyConfig
        /\ cResult.err = "nil" =>
              \A e \in Listed(cResult.envs) :
                  /\ e \in DOMAIN cResult.fetched
                  /\ Written(cResult.repos, cResult.fetched[e])

\* C15 witness: environment-added of e1 and e2 returned nil with e1's keys,
\* flags and segments and e2's keys and flags in the repos.
C15_Witness ==
    /\ cResult.op = EventEnvironmentAdded
    /\ cResult.err = "nil"
    /\ cResult.envs = <<"e1", "e2">>
    /\ cResult.fetched["e1"].FeatureConfigs = <<"f1">>
    /\ cResult.fetched["e2"].FeatureConfigs = <<"f2">>
    /\ cResult.repos.auth["auth-key-k1"] = "e1"
    /\ cResult.repos.auth["auth-key-k3"] = "e2"
    /\ cResult.repos.flags = [e \in Envs |-> IF e = "e1" THEN <<"f1">> ELSE <<"f2">>]
    /\ cResult.repos.segments["e1"] = <<"s1">>

\* C16: when HandleMessage has returned nil for environment-removed, no auth
\* record maps to a listed environment, its key list, flag config and
\* segment config are gone, and the entries of the other environments are
\* what they were before the message.
C16_EnvironmentRemoved ==
    (cResult.op = EventEnvironmentRemoved /\ cResult.err = "nil") =>
        /\ \A e \in Listed(cResult.envs) :
              /\ AuthKeysMappedTo(cResult.repos.auth, e) = {}
              /\ cResult.repos.keys[e] = NoKeyList
              /\ cResult.repos.flags[e] = <<>>
              /\ cResult.repos.segments[e] = <<>>
        /\ \A e \in Envs \ Listed(cResult.envs) :
              /\ AuthKeysMappedTo(cResult.repos.auth, e)
                    = AuthKeysMappedTo(cStart.repos.auth, e)
              /\ cResult.repos.keys[e] = cStart.repos.keys[e]
              /\ cResult.repos.flags[e] = cStart.repos.flags[e]
              /\ cResult.repos.segments[e] = cStart.repos.segments[e]

\* C16 witness: e1 and e2 had been added; environment-removed of e1 returned
\* nil, e1's entries are gone and e2's are still there.
C16_Witness ==
    /\ cResult.op = EventEnvironmentRemoved
    /\ cResult.err = "nil"
    /\ cResult.envs = <<"e1">>
    /\ AuthKeysMappedTo(cStart.repos.auth, "e1") = {"auth-key-k1", "auth-key-k2"}
    /\ cStart.repos.flags["e1"] = <<"f1">>
    /\ cStart.repos.segments["e1"] = <<"s1">>
    /\ authRepo = [a \in AuthAPIKeys |-> IF a = "auth-key-k3" THEN "e2" ELSE NoEnv]
    /\ apiKeyList["e1"] = NoKeyList
    /\ apiKeyList["e2"].keys = {"auth-key-k3"}
    /\ flagRepo = [e \in Envs |-> IF e = "e1" THEN <<>> ELSE <<"f1">>]
    /\ segmentRepo = [e \in Envs |-> IF e = "e1" THEN <<>> ELSE <<"s1">>]

C18_ErrorDispatch ==
    cResult.op = "dispatch" =>
        /\ cResult.domain \notin {MsgDomainFeature, MsgDomainSegment, MsgDomainProxy}
              => cResult.err = "ErrUnexpectedMessageDomain"
        /\ (cResult.domain \in {MsgDomainFeature, MsgDomainSegment}
            /\ cResult.event \notin {EventCreate, EventPatch, EventDelete})
              => cResult.err = "ErrUnexpectedEventType"
        /\ (cResult.domain = MsgDomainProxy
            /\ cResult.event \notin {EventProxyKeyDeleted, EventEnvironmentAdded,
                                     EventEnvironmentRemoved, EventAPIKeyAdded,
                                     EventAPIKeyRemoved})
              => cResult.err = "ErrUnexpectedEventType"
        /\ cResult.repos = cStart.repos
        /\ Repos = cStart.repos
        /\ cUpstreamCalls = cStart.calls

\* C18 witness: after an environment was added, a message of domain "foo"
\* was answered with ErrUnexpectedMessageDomain and the repos still hold the
\* environment.
C18_Witness ==
    /\ cResult.op = "dispatch"
    /\ cResult.domain = "foo"
    /\ cResult.err = "ErrUnexpectedMessageDomain"
    /\ cStart.calls = 1
    /\ cUpstreamCalls = 1
    /\ flagRepo["e1"] = <<"f1">>
    /\ authRepo["auth-key-k1"] = "e1"

-----------------------------------------------------------------------------
(* The metrics Queue of the Primary: StoreMetrics, the two sub-buffers and *)
(* their flush tickers.                                                    *)

\* The StoreMetrics calls and ticks of a run.
MaxRequests == 3

\* The caps of the two sub-buffers, scaled down.
maxEvaluationQueueSize == 2
maxTargetQueueSize == 2

\* The Size of a request.
RequestSizes == {1, 3}

\* A *[]MetricsData or *[]TargetData: nil, or a slice.
NilData == [isNil |-> TRUE, items |-> <<>>]
Data(items) == [isNil |-> FALSE, items |-> items]

\* The Metrics of a request: both kinds of data, an empty list of metrics
\* data only, target data only, or nothing.
RequestMetrics ==
    { [MetricsData |-> Data(<<"m1">>), TargetData |-> Data(<<"t1">>)],
      [MetricsData |-> Data(<<>>), TargetData |-> NilData],
      [MetricsData |-> NilData, TargetData |-> Data(<<"t1">>)],
      [MetricsData |-> NilData, TargetData |-> NilData] }

\* domain.MetricsRequest
MetricsRequests ==
    { [Size |-> s, EnvironmentID |-> e, MetricsData |-> d.MetricsData,
       TargetData |-> d.TargetData] : s \in RequestSizes, e \in Envs, d \in RequestMetrics }

\* Mutant: the evaluation sub-buffer keeps the whole request.
EvaluationPart_Whole(m) == m

\* What the evaluation sub-buffer keeps of a request: all but its TargetData.
EvaluationPart(m) == [m EXCEPT !.TargetData = NilData]

\* What the target sub-buffer keeps of a request: all but its MetricsData.
TargetPart(m) == [m EXCEPT !.MetricsData = NilData]

EmptyMap == <<>>

EmptyBuffer == [metrics |-> EmptyMap, currentSize |-> 0]

\* The sub-buffer is over its cap and is flushed by the next store; at the
\* cap itself either can be the case.
MustFlush(buf, cap) == buf.currentSize > cap
MayFlush(buf, cap) == buf.currentSize >= cap

\* Mutant: a store into a flushed sub-buffer drops the new entry.
StoreInEmptied_Drops(part) == EmptyBuffer

\* A store into a sub-buffer that was just flushed: it holds the new entry
\* and nothing else.
StoreInEmptied(part) ==
    [metrics |-> [e \in {part.EnvironmentID} |-> part], currentSize |-> part.Size]

\* A store into a sub-buffer below its cap: the entry of the environment is
\* created, or the new items are appended to it.
StoreAppend(buf, part) ==
    LET e == part.EnvironmentID
        old == buf.metrics
        entry == IF e \in DOMAIN old
                 THEN [old[e] EXCEPT
                          !.MetricsData = IF part.MetricsData.isNil THEN @
                                          ELSE Data(@.items \o part.MetricsData.items),
                          !.TargetData = IF part.TargetData.isNil THEN @
                                         ELSE Data(@.items \o part.TargetData.items)]
                 ELSE part
    IN [metrics |-> [x \in DOMAIN old \cup {e} |-> IF x = e THEN entry ELSE old[x]],
        currentSize |-> buf.currentSize + part.Size]

\* Mutant: a flush discards what the sub-buffer holds.
Flushed_Discarded(q, buf) == q

\* A flush puts what the sub-buffer holds on the output channel.
Flushed(q, buf) == Append(q, buf.metrics)

NoStore == [op |-> "none", ret |-> "", request |-> <<>>, preMetrics |-> EmptyBuffer,
            preTargets |-> EmptyBuffer, preQueue |-> <<>>, evalFlushed |-> FALSE,
            targetFlushed |-> FALSE]

InitQueue ==
    /\ metricsData = EmptyBuffer
    /\ targetData = EmptyBuffer
    /\ queue = <<>>
    /\ qLast = NoStore
    /\ qOps = 0
    /\ qCtx = "live"
    /\ yielded = 0
    /\ listenPc = "running"
    /\ rangePc = "ranging"

\* Mutant: nil data is stored like any other.
StoreSub_IgnoresNil(buf, cap, part, isNil, flush) ==
    IF flush THEN StoreInEmptied(part) ELSE StoreAppend(buf, part)

\* One sub-buffer's part of StoreMetrics: nil data is not stored; a
\* sub-buffer over its cap is flushed first.
StoreSub(buf, cap, part, isNil, flush) ==
    IF isNil THEN buf
    ELSE IF flush THEN StoreInEmptied(part)
    ELSE StoreAppend(buf, part)

\* The queue channel is unbuffered: a send on it returns when Listen has
\* handed the map to the consumer, or is lost once Listen has closed.
Delivered == yielded = Len(queue) \/ listenPc = "closed"

\* Queue.StoreMetrics
StoreMetrics ==
    /\ qOps < MaxRequests
    /\ Delivered
    /\ \E m \in MetricsRequests, fe \in BOOLEAN, ft \in BOOLEAN :
          LET evalFlush == ~m.MetricsData.isNil /\ fe
              targetFlush == ~m.TargetData.isNil /\ ft
              q1 == IF evalFlush THEN Flushed(queue, metricsData) ELSE queue
              q2 == IF targetFlush THEN Flushed(q1, targetData) ELSE q1
          IN
          /\ MustFlush(metricsData, maxEvaluationQueueSize) => fe
          /\ fe => MayFlush(metricsData, maxEvaluationQueueSize)
          /\ MustFlush(targetData, maxTargetQueueSize) => ft
          /\ ft => MayFlush(targetData, maxTargetQueueSize)
          /\ metricsData' = StoreSub(metricsData, maxEvaluationQueueSize,
                                     EvaluationPart(m), m.MetricsData.isNil, evalFlush)
          /\ targetData' = StoreSub(targetData, maxTargetQueueSize,
                                    TargetPart(m), m.TargetData.isNil, targetFlush)
          /\ queue' = q2
          /\ qLast' = [op |-> "store", ret |-> "nil", request |-> m,
                       preMetrics |-> metricsData, preTargets |-> targetData,
                       preQueue |-> queue, evalFlushed |-> evalFlush,
                       targetFlushed |-> targetFlush]
    /\ qOps' = qOps + 1
    /\ UNCHANGED lvars
    /\ UNCHANGED <<fvars, hvars, mvars, cvars, nvars>>

\* The metrics ticker fires: the evaluation sub-buffer is flushed.
MetricsTick ==
    /\ qOps < MaxRequests
    /\ Delivered
    /\ listenPc = "running"
    /\ metricsData.metrics # EmptyMap
    /\ queue' = Flushed(queue, metricsData)
    /\ metricsData' = EmptyBuffer
    /\ qLast' = [NoStore EXCEPT !.op = "metricsTick", !.preMetrics = metricsData,
                                !.preTargets = targetData, !.preQueue = queue,
                                !.request = qLast.request,
                                !.evalFlushed = qLast.op = "store" /\ qLast.evalFlushed]
    /\ qOps' = qOps + 1
    /\ UNCHANGED <<targetData, lvars>>
    /\ UNCHANGED <<fvars, hvars, mvars, cvars, nvars>>

\* The targets ticker fires: the target sub-buffer is flushed.
TargetsTick ==
    /\ qOps < MaxRequests
    /\ Delivered
    /\ listenPc = "running"
    /\ targetData.metrics # EmptyMap
    /\ queue' = Flushed(queue, targetData)
    /\ targetData' = EmptyBuffer
    /\ qLast' = [NoStore EXCEPT !.op = "targetsTick", !.preMetrics = metricsData,
                                !.preTargets = targetData, !.preQueue = queue,
                                !.request = qLast.request,
                                !.targetFlushed = qLast.op = "store" /\ qLast.targetFlushed]
    /\ qOps' = qOps + 1
    /\ UNCHANGED <<metricsData, lvars>>
    /\ UNCHANGED <<fvars, hvars, mvars, cvars, nvars>>

\* Mutant: Listen does not watch its context.
ListenDone_Never(ctx) == FALSE

\* The ctx.Done() case of Listen's select.
ListenDone(ctx) == ctx = "cancelled"

bvars == <<metricsData, targetData, queue, qLast, qOps>>

\* Listen hands the next emitted map to the consumer's range loop.
ListenYield ==
    /\ listenPc = "running"
    /\ rangePc = "ranging"
    /\ yielded < Len(queue)
    /\ yielded' = yielded + 1
    /\ UNCHANGED <<qCtx, listenPc, rangePc, bvars>>
    /\ UNCHANGED <<fvars, hvars, mvars, cvars, nvars>>

\* The context of Listen is cancelled.
CancelContext ==
    /\ qCtx = "live"
    /\ qCtx' = "cancelled"
    /\ UNCHANGED <<yielded, listenPc, rangePc, bvars>>
    /\ UNCHANGED <<fvars, hvars, mvars, cvars, nvars>>

\* Listen sees its context done and closes the channel it returned.
ListenClose ==
    /\ listenPc = "running"
    /\ ListenDone(qCtx)
    /\ listenPc' = "closed"
    /\ UNCHANGED <<qCtx, yielded, rangePc, bvars>>
    /\ UNCHANGED <<fvars, hvars, mvars, cvars, nvars>>

\* The consumer's range loop ends on the closed channel.
RangeEnd ==
    /\ rangePc = "ranging"
    /\ listenPc = "closed"
    /\ rangePc' = "done"
    /\ UNCHANGED <<qCtx, yielded, listenPc, bvars>>
    /\ UNCHANGED <<fvars, hvars, mvars, cvars, nvars>>

NextQueue ==
    \/ StoreMetrics
    \/ MetricsTick
    \/ TargetsTick
    \/ ListenYield

NextListen ==
    \/ NextQueue
    \/ CancelContext
    \/ ListenClose
    \/ RangeEnd


\* The last step was a StoreMetrics call carrying evaluation data, made while
\* the evaluation sub-buffer exceeded its cap.
EvalCapExceededStore ==
    /\ qLast.op = "store"
    /\ ~qLast.request.MetricsData.isNil
    /\ MustFlush(qLast.preMetrics, maxEvaluationQueueSize)

\* The same for the target sub-buffer.
TargetCapExceededStore ==
    /\ qLast.op = "store"
    /\ ~qLast.request.TargetData.isNil
    /\ MustFlush(qLast.preTargets, maxTargetQueueSize)

\* The map holding one entry.
OnlyEntry(part) == [e \in {part.EnvironmentID} |-> part]

\* The maps put on the output channel by the last step.
EmittedByLast == { queue[i] : i \in (Len(qLast.preQueue) + 1)..Len(queue) }

\* C19 as stated: a StoreMetrics call made while the evaluation (resp. target)
\* sub-buffer already exceeds its cap does not add the new request's data to
\* that sub-buffer, which keeps the contents held before the call, and those
\* contents are what the next flush tick emits.
C19_Original_NewEntryDropped ==
    /\ EvalCapExceededStore => metricsData = qLast.preMetrics
    /\ TargetCapExceededStore => targetData = qLast.preTargets
    /\ (qLast.op = "metricsTick" /\ qLast.evalFlushed) =>
           queue[Len(queue)] # OnlyEntry(EvaluationPart(qLast.request))
    /\ (qLast.op = "targetsTick" /\ qLast.targetFlushed) =>
           queue[Len(queue)] # OnlyEntry(TargetPart(qLast.request))

\* C19, amended: a StoreMetrics call made while the evaluation (resp. target)
\* sub-buffer already exceeds its cap emits the contents held before the call
\* on the output channel during the call and resets the sub-buffer's size to
\* that of the new request, whose data is kept; a flush tick that follows the
\* call emits the new request's data, not the contents held before the call.
C19_CapExceededEmitsHeldKeepsNew ==
    /\ EvalCapExceededStore =>
           /\ qLast.preMetrics.metrics \in EmittedByLast
           /\ metricsData.currentSize = qLast.request.Size
    /\ TargetCapExceededStore =>
           /\ qLast.preTargets.metrics \in EmittedByLast
           /\ targetData.currentSize = qLast.request.Size
    /\ (qLast.op = "metricsTick" /\ qLast.evalFlushed) =>
           /\ queue = Append(qLast.preQueue, OnlyEntry(EvaluationPart(qLast.request)))
           /\ metricsData = EmptyBuffer
    /\ (qLast.op = "targetsTick" /\ qLast.targetFlushed) =>
           /\ queue = Append(qLast.preQueue, OnlyEntry(TargetPart(qLast.request)))
           /\ targetData = EmptyBuffer

\* A metrics tick right after a store that found the evaluation sub-buffer
\* over its cap, holding another environment's data.
C19_Witness ==
    /\ qLast.op = "metricsTick"
    /\ qLast.evalFlushed
    /\ Len(queue) = 2
    /\ DOMAIN queue[1] # DOMAIN queue[2]

\* C20: StoreMetrics called while a sub-buffer's current size exceeds its cap
\* returns nil and leaves that sub-buffer holding exactly the new request's
\* data for its environment: the evaluation sub-buffer the request with
\* TargetData nil, the target sub-buffer the request with only TargetData.
C20_CapExceededHoldsNewRequest ==
    /\ qLast.op = "store" => qLast.ret = "nil"
    /\ EvalCapExceededStore =>
           /\ DOMAIN metricsData.metrics = {qLast.request.EnvironmentID}
           /\ metricsData.metrics[qLast.request.EnvironmentID] =
                  [qLast.request EXCEPT !.TargetData = NilData]
    /\ TargetCapExceededStore =>
           /\ DOMAIN targetData.metrics = {qLast.request.EnvironmentID}
           /\ targetData.metrics[qLast.request.EnvironmentID] =
                  [qLast.request EXCEPT !.MetricsData = NilData]

\* Both sub-buffers were over their caps holding an entry of the request's
\* environment that differs from the request.
C20_Witness ==
    /\ EvalCapExceededStore
    /\ TargetCapExceededStore
    /\ qLast.request.EnvironmentID \in DOMAIN qLast.preMetrics.metrics
    /\ qLast.request.EnvironmentID \in DOMAIN qLast.preTargets.metrics
    /\ qLast.preMetrics.metrics[qLast.request.EnvironmentID] # EvaluationPart(qLast.request)
    /\ qLast.preTargets.metrics[qLast.request.EnvironmentID] # TargetPart(qLast.request)


\* The entries of the environments other than e are the same in both maps.
OthersUnchanged(before, after, e) ==
    /\ DOMAIN after \ {e} = DOMAIN before \ {e}
    /\ \A x \in DOMAIN before \ {e} : after[x] = before[x]

\* The last step was a StoreMetrics call carrying evaluation data, made while
\* the evaluation sub-buffer was below its cap.
EvalBelowCapStore ==
    /\ qLast.op = "store"
    /\ ~qLast.request.MetricsData.isNil
    /\ qLast.preMetrics.currentSize < maxEvaluationQueueSize

\* The same for the target sub-buffer.
TargetBelowCapStore ==
    /\ qLast.op = "store"
    /\ ~qLast.request.TargetData.isNil
    /\ qLast.preTargets.currentSize < maxTargetQueueSize

\* C21: the sub-buffers are independent. The entries of the evaluation
\* sub-buffer have TargetData nil and those of the target sub-buffer have no
\* MetricsData; a store below the cap adds the request's data under the
\* request's environment id and leaves the entries of every other environment
\* of that sub-buffer as they were.
C21_SubBuffersIndependent ==
    /\ \A e \in DOMAIN metricsData.metrics :
           /\ metricsData.metrics[e].TargetData = NilData
           /\ ~metricsData.metrics[e].MetricsData.isNil
    /\ \A e \in DOMAIN targetData.metrics :
           /\ targetData.metrics[e].MetricsData = NilData
           /\ ~targetData.metrics[e].TargetData.isNil
    /\ EvalBelowCapStore =>
           /\ qLast.request.EnvironmentID \in DOMAIN metricsData.metrics
           /\ OthersUnchanged(qLast.preMetrics.metrics, metricsData.metrics,
                              qLast.request.EnvironmentID)
    /\ TargetBelowCapStore =>
           /\ qLast.request.EnvironmentID \in DOMAIN targetData.metrics
           /\ OthersUnchanged(qLast.preTargets.metrics, targetData.metrics,
                              qLast.request.EnvironmentID)

\* A request with both kinds of data was stored below the caps while both
\* sub-buffers held another environment's entry.
C21_Witness ==
    /\ EvalBelowCapStore
    /\ TargetBelowCapStore
    /\ DOMAIN qLast.preMetrics.metrics = Envs \ {qLast.request.EnvironmentID}
    /\ DOMAIN qLast.preTargets.metrics = Envs \ {qLast.request.EnvironmentID}
    /\ DOMAIN metricsData.metrics = Envs
    /\ DOMAIN targetData.metrics = Envs

\* C22: StoreMetrics with nil TargetData stores nothing in the target
\* sub-buffer and with nil MetricsData stores nothing in the evaluation
\* sub-buffer; with both nil it returns nil and leaves both as they were.
C22_NilDataNotStored ==
    qLast.op = "store" =>
        /\ qLast.request.TargetData.isNil => targetData = qLast.preTargets
        /\ qLast.request.MetricsData.isNil => metricsData = qLast.preMetrics
        /\ (qLast.request.TargetData.isNil /\ qLast.request.MetricsData.isNil) =>
               qLast.ret = "nil"

\* A request with both nil was stored while both sub-buffers held entries.
C22_Witness ==
    /\ qLast.op = "store"
    /\ qLast.request.TargetData.isNil
    /\ qLast.request.MetricsData.isNil
    /\ qLast.preMetrics.metrics # EmptyMap
    /\ qLast.preTargets.metrics # EmptyMap


\* Every emitted map is keyed by the environment id of its entries.
KeyedByEnvironment ==
    \A i \in 1..Len(queue) : \A e \in DOMAIN queue[i] : queue[i][e].EnvironmentID = e

\* The map emitted by a metrics tick is what the evaluation sub-buffer held,
\* which includes the data of the request stored last before the tick.
TickYieldsStored ==
    qLast.op = "metricsTick" =>
        /\ queue = Append(qLast.preQueue, qLast.preMetrics.metrics)
        /\ ~qLast.request.MetricsData.isNil =>
               /\ qLast.request.EnvironmentID \in DOMAIN queue[Len(queue)]
               /\ LET held == queue[Len(queue)][qLast.request.EnvironmentID].MetricsData.items
                      new == qLast.request.MetricsData.items
                  IN /\ Len(held) >= Len(new)
                     /\ SubSeq(held, Len(held) - Len(new) + 1, Len(held)) = new

\* The consumer receives emitted maps only, and its loop ends only after the
\* context was cancelled.
YieldedSequence ==
    /\ yielded <= Len(queue)
    /\ rangePc = "done" => qCtx = "cancelled"

\* C23: requests stored before a flush tick are yielded, keyed by environment
\* id, in a map emitted at that tick, and once the context is cancelled the
\* consumer's range loop terminates.
C23_ListenYieldsAndEnds ==
    /\ [](KeyedByEnvironment /\ TickYieldsStored /\ YieldedSequence)
    /\ (qCtx = "cancelled") ~> (rangePc = "done")

\* Two environments' requests were stored, one tick emitted both in one map,
\* the consumer received it, and its loop ended after the cancellation.
C23_Witness ==
    /\ rangePc = "done"
    /\ yielded = 1
    /\ Len(queue) = 1
    /\ DOMAIN queue[1] = Envs

-----------------------------------------------------------------------------
(* RedisStream.Sub: one subscription to a redis stream.                    *)

\* The messages published on the stream during a run; their ids are 1, 2, ...
MaxPublished == 2

\* The XRead calls of one subscription.
MaxReads == 2

\* The id argument of Sub: none, or the id the subscription starts after.
SubIds == {"", "0"}

\* Lines 61-63: without an id the subscription reads from "$".
StartId(id) == IF id = "" THEN "$" ELSE id

\* The messages XRead returns for an id: for "$" those added after the call
\* was made, for "0" all the messages of the stream.
ReadsAfter(id, lenAtCall) == IF id = "$" THEN lenAtCall ELSE 0

\* What the handler can return.
HandlerResults == {"nil", "io.EOF", "wrapped io.EOF", "ErrOther"}

\* Mutant: every handler error ends the subscription.
HandlerErrorEnds_AnyError(err) == err # "nil"

\* Line 84: the handler's error ends the subscription when it is io.EOF.
HandlerErrorEnds(err) == err = "io.EOF"

\* Line 76: the error returned when XRead fails.
ErrSubscribing == "RedisStream: ErrSubscribing"

InitSub ==
    /\ xStream = 0
    /\ xId = ""
    /\ xPc = "idle"
    /\ xCtx = "live"
    /\ xFrom = 0
    /\ xBatch = <<>>
    /\ xIdx = 1
    /\ xActive = 0
    /\ xHandled = <<>>
    /\ xLast = [step |-> "none", result |-> "nil", skipped |-> FALSE, afterSkip |-> FALSE]
    /\ xRet = "none"
    /\ xReads = 0
    /\ xStart = 0

\* RedisStream.Pub (XAdd): a message is added to the stream.
Pub ==
    /\ xStream < MaxPublished
    /\ xStream' = xStream + 1
    /\ UNCHANGED <<xId, xPc, xCtx, xFrom, xBatch, xIdx, xActive, xHandled, xLast,
                   xRet, xReads, xStart>>
    /\ UNCHANGED <<oldvars, wvars, rvars, pvars, evars>>

\* Sub is called (lines 60-63).
Sub ==
    /\ xPc = "idle"
    /\ \E id \in SubIds : xId' = StartId(id)
    /\ xPc' = "select"
    /\ UNCHANGED <<xStream, xCtx, xFrom, xBatch, xIdx, xActive, xHandled, xLast,
                   xRet, xReads, xStart>>
    /\ UNCHANGED <<oldvars, wvars, rvars, pvars, evars>>

\* The caller cancels the context.
SubCancel ==
    /\ xCtx = "live"
    /\ xPc # "idle"
    /\ xCtx' = "cancelled"
    /\ UNCHANGED <<xStream, xId, xPc, xFrom, xBatch, xIdx, xActive, xHandled, xLast,
                   xRet, xReads, xStart>>
    /\ UNCHANGED <<oldvars, wvars, rvars, pvars, evars>>

\* Lines 66-74: the select at the top of the loop. With the context done Sub
\* returns its error, otherwise XRead is called with the id.
SubSelect ==
    /\ xPc = "select"
    /\ IF xCtx = "cancelled"
       THEN /\ xPc' = "returned"
            /\ xRet' = "ctx.Err"
            /\ UNCHANGED <<xFrom, xReads, xStart>>
       ELSE /\ xReads < MaxReads
            /\ xPc' = "xread"
            /\ xFrom' = ReadsAfter(xId, xStream)
            /\ xReads' = xReads + 1
            /\ xStart' = IF xReads = 0 THEN ReadsAfter(xId, xStream) ELSE xStart
            /\ xRet' = xRet
    /\ xLast' = [xLast EXCEPT !.step = "select"]
    /\ UNCHANGED <<xStream, xId, xCtx, xBatch, xIdx, xActive, xHandled>>
    /\ UNCHANGED <<oldvars, wvars, rvars, pvars, evars>>

\* Lines 70-77: XRead fails (redis is unreachable, or the context was
\* cancelled while the call blocked).
XReadFails ==
    /\ xPc = "xread"
    /\ xPc' = "returned"
    /\ xRet' = ErrSubscribing
    /\ xLast' = [xLast EXCEPT !.step = "xreadFailed"]
    /\ UNCHANGED <<xStream, xId, xCtx, xFrom, xBatch, xIdx, xActive, xHandled, xReads, xStart>>
    /\ UNCHANGED <<oldvars, wvars, rvars, pvars, evars>>

\* Lines 70-80: XRead returns the messages after the id it was given.
XReadReturns ==
    /\ xPc = "xread"
    /\ xStream > xFrom
    /\ xBatch' = [i \in 1..(xStream - xFrom) |-> xFrom + i]
    /\ xIdx' = 1
    /\ xPc' = "handle"
    /\ xLast' = [xLast EXCEPT !.step = "xread"]
    /\ UNCHANGED <<xStream, xId, xCtx, xFrom, xActive, xHandled, xRet, xReads, xStart>>
    /\ UNCHANGED <<oldvars, wvars, rvars, pvars, evars>>

\* Line 81: handleMessage is called with the next message of the batch.
HandleBegin ==
    /\ xPc = "handle"
    /\ xActive' = xActive + 1
    /\ xHandled' = Append(xHandled, xBatch[xIdx])
    /\ xPc' = "handling"
    /\ xLast' = [xLast EXCEPT !.step = "call", !.afterSkip = xLast.skipped]
    /\ UNCHANGED <<xStream, xId, xCtx, xFrom, xBatch, xIdx, xRet, xReads, xStart>>
    /\ UNCHANGED <<oldvars, wvars, rvars, pvars, evars>>

\* Lines 81-88: handleMessage returns. io.EOF is returned to the caller; any
\* other error is skipped.
HandleEnd ==
    /\ xPc = "handling"
    /\ xActive' = xActive - 1
    /\ \E r \in HandlerResults :
          /\ xLast' = [xLast EXCEPT !.step = "handled", !.result = r,
                                    !.skipped = @ \/ (r # "nil" /\ ~HandlerErrorEnds(r))]
          /\ IF r # "nil" /\ HandlerErrorEnds(r)
             THEN /\ xPc' = "returned"
                  /\ xRet' = r
                  /\ xIdx' = xIdx
             ELSE /\ xPc' = IF xIdx < Len(xBatch) THEN "handle" ELSE "select"
                  /\ xIdx' = xIdx + 1
                  /\ xRet' = xRet
    /\ UNCHANGED <<xStream, xId, xCtx, xFrom, xBatch, xHandled, xReads, xStart>>
    /\ UNCHANGED <<oldvars, wvars, rvars, pvars, evars>>

NextSub ==
    \/ Pub
    \/ Sub
    \/ SubCancel
    \/ SubSelect
    \/ XReadFails
    \/ XReadReturns
    \/ HandleBegin
    \/ HandleEnd

C26_InOrderOneAtATime ==
    /\ xActive <= 1
    /\ \A i \in 1..Len(xHandled) : \A j \in 1..Len(xHandled) :
           i < j => xHandled[i] <= xHandled[j]


\* A /stream request was accepted in this step: an SDK stream was registered.
StreamAccepted == ~(connectedStreams' \subseteq connectedStreams)

\* C29: an SDK /stream request is accepted only when stream health is
\* CONNECTED: the HealthySaasStream check is true if and only if the status
\* read succeeds and the state is CONNECTED, so no request is accepted while
\* the state is INITIALIZING or DISCONNECTED or cannot be read.
C29_StreamAcceptedOnlyWhenConnected ==
    /\ [](\A statusErr \in BOOLEAN :
             HealthySaasStream(statusErr) <=>
                 (~statusErr /\ healthInMem = StreamStateConnected))
    /\ [][StreamAccepted => healthInMem = StreamStateConnected]_vars

\* The streams of both environments were accepted while the state was
\* CONNECTED, after the on-connect handler had set it.
C29_Witness ==
    /\ connectedStreams = Envs
    /\ healthInMem = StreamStateConnected
    /\ hKind = "connect"
    /\ HandlerDone

-----------------------------------------------------------------------------
(* The stream wrapper: Stream.Subscribe and its retry loop.                *)

\* The times the transport's subscribe is called in a run.
MaxSubscriptions == 3

\* How the transport's subscribe can return.
TransportReturns == {"transport error", "io.EOF", "context cancelled"}

\* Mutant: the loop gives up when the stream has ended.
LoopExits_OnEndOfStream(ctx, err) == ctx = "cancelled" \/ err = "io.EOF"

\* The loop of Subscribe exits when its context is done, whatever the
\* transport returned.
LoopExits(ctx, err) == ctx = "cancelled"

InitWrapper ==
    /\ wPc = "idle"
    /\ wCtx = "live"
    /\ wCaller = "none"
    /\ wLog = <<>>
    /\ wErr = "nil"
    /\ wSubs = 0

\* main calls Subscribe: the loop is started and the call returns (main goes
\* on to the next call).
Subscribe ==
    /\ wPc = "idle"
    /\ wPc' = "check"
    /\ wCaller' = "returned"
    /\ UNCHANGED <<wCtx, wLog, wErr, wSubs>>
    /\ UNCHANGED <<oldvars, xvars, rvars, pvars, evars>>

\* The context of the process is cancelled.
WrapperCancel ==
    /\ wCtx = "live"
    /\ wPc # "idle"
    /\ wCtx' = "cancelled"
    /\ UNCHANGED <<wPc, wCaller, wLog, wErr, wSubs>>
    /\ UNCHANGED <<oldvars, xvars, rvars, pvars, evars>>

\* The top of the loop: exit on a cancelled context, else call the
\* transport's subscribe.
LoopCheck ==
    /\ wPc = "check"
    /\ IF LoopExits(wCtx, wErr)
       THEN /\ wPc' = "exited"
            /\ wLog' = Append(wLog, "exit")
            /\ wSubs' = wSubs
       ELSE /\ wSubs < MaxSubscriptions
            /\ wPc' = "subscribed"
            /\ wLog' = Append(wLog, "subscribe")
            /\ wSubs' = wSubs + 1
    /\ UNCHANGED <<wCtx, wCaller, wErr>>
    /\ UNCHANGED <<oldvars, xvars, rvars, pvars, evars>>

\* The transport's subscribe returns: an error of the transport, the end of
\* the stream, or the context's cancellation.
TransportReturn ==
    /\ wPc = "subscribed"
    /\ \E e \in TransportReturns :
          /\ e = "context cancelled" => wCtx = "cancelled"
          /\ wErr' = e
          /\ wLog' = Append(wLog, e)
    /\ wPc' = "disconnect"
    /\ UNCHANGED <<wCtx, wCaller, wSubs>>
    /\ UNCHANGED <<oldvars, xvars, rvars, pvars, evars>>

\* The loop calls onDisconnect.
OnDisconnect ==
    /\ wPc = "disconnect"
    /\ wPc' = "backoff"
    /\ wLog' = Append(wLog, "onDisconnect")
    /\ UNCHANGED <<wCtx, wCaller, wErr, wSubs>>
    /\ UNCHANGED <<oldvars, xvars, rvars, pvars, evars>>

\* The loop waits for the duration the backoff policy gives.
Backoff ==
    /\ wPc = "backoff"
    /\ wPc' = "check"
    /\ wLog' = Append(wLog, "backoff")
    /\ UNCHANGED <<wCtx, wCaller, wErr, wSubs>>
    /\ UNCHANGED <<oldvars, xvars, rvars, pvars, evars>>

NextWrapper ==
    \/ Subscribe
    \/ WrapperCancel
    \/ LoopCheck
    \/ TransportReturn
    \/ OnDisconnect
    \/ Backoff

\* The steps of the loop after step i of its log.
Following(i, n) == SubSeq(wLog, i + 1, IF i + n <= Len(wLog) THEN i + n ELSE Len(wLog))

\* A sequence is a prefix of another.
IsPrefix(a, b) == Len(a) <= Len(b) /\ SubSeq(b, 1, Len(a)) = a

\* Each return of the transport's subscribe is followed by one onDisconnect,
\* one backoff wait and then the next subscribe, or the exit.
RetriesAfterReturn ==
    \A i \in 1..Len(wLog) :
        wLog[i] \in TransportReturns =>
            \/ IsPrefix(Following(i, 3), <<"onDisconnect", "backoff", "subscribe">>)
            \/ Following(i, 3) = <<"onDisconnect", "backoff", "exit">>

\* C24: Subscribe never ends because of a transport error or the end of the
\* stream: each time the transport's subscribe returns the loop invokes
\* onDisconnect once, waits per the backoff policy and subscribes again; the
\* loop exits only when the context is cancelled, and then it does exit.
C24_SubscribeRetriesUntilCancelled ==
    /\ [](RetriesAfterReturn /\ (wPc = "exited" => wCtx = "cancelled"))
    /\ (wPc = "disconnect" /\ wSubs < MaxSubscriptions) ~> (wPc = "subscribed" \/ wCtx = "cancelled")
    /\ (wCtx = "cancelled" /\ wPc # "subscribed") ~> (wPc = "exited")

\* The transport returned the end of the stream and then an error, and the
\* loop subscribed a third time.
C24_Witness ==
    /\ wPc = "subscribed"
    /\ wCtx = "live"
    /\ wLog = <<"subscribe", "io.EOF", "onDisconnect", "backoff",
                "subscribe", "transport error", "onDisconnect", "backoff", "subscribe">>

-----------------------------------------------------------------------------
(* A Read Replica and the shared stream status: the startup routine        *)
(* getStreamStatusForReplica and the control-event handler.                *)

\* The writes, polls and control events of a run.
MaxReplicaSteps == 4

\* No value is stored under ffproxy_saas_stream_health.
NoStatus == "missing"

\* Mutant: a poll that finds no key stores an initial status.
CacheAfterGet_InitialisesMissing(cached) ==
    IF cached = NoStatus THEN StreamStateInitializing ELSE cached

\* c.Get(ctx, key, &status) leaves the cached value as it is.
CacheAfterGet(cached) == cached

\* Mutant: the routine stops once the status can be read.
SnapshotDecision_StopsOnInitializing(getErr, state) ==
    IF getErr THEN "continue"
    ELSE IF state = StreamStateConnected THEN "SetHealthy"
    ELSE "SetUnhealthy"

\* What one tick of getStreamStatusForReplica does with the result of the
\* read: poll again, or set the local state and return.
SnapshotDecision(getErr, state) ==
    IF getErr THEN "continue"
    ELSE IF state = StreamStateInitializing THEN "continue"
    ELSE IF state = StreamStateConnected THEN "SetHealthy"
    ELSE IF state = StreamStateDisconnected THEN "SetUnhealthy"
    ELSE "continue"

\* SetHealthy / SetUnhealthy of a replica's Health: the local state.
ReplicaSet(call) ==
    IF call = "SetHealthy" THEN StreamStateConnected ELSE StreamStateDisconnected

InitReplica ==
    /\ rCached = NoStatus
    /\ rLocal = StreamStateInitializing
    /\ rPc = "polling"
    /\ rCtx = "live"
    /\ rSets = 0
    /\ rPoll = "none"
    /\ rLast = "none"
    /\ rSteps = 0

\* The Primary stores a stream status under the key.
PrimaryWritesStatus ==
    /\ rSteps < MaxReplicaSteps
    /\ \E s \in StreamStates : rCached' = s
    /\ rLast' = "primary"
    /\ rSteps' = rSteps + 1
    /\ UNCHANGED <<rLocal, rPc, rCtx, rSets, rPoll>>
    /\ UNCHANGED <<oldvars, wvars, xvars, pvars, evars>>

\* One tick of getStreamStatusForReplica (lines 743-770). The read fails
\* when there is no key, when the context is done, or when the cache is down.
ReplicaPoll ==
    /\ rPc = "polling"
    /\ rSteps < MaxReplicaSteps
    /\ \E getErr \in BOOLEAN :
          LET d == SnapshotDecision(getErr, rCached) IN
          /\ (rCached = NoStatus \/ rCtx = "cancelled") => getErr
          /\ rPoll' = IF getErr THEN "err" ELSE rCached
          /\ IF d = "continue"
             THEN UNCHANGED <<rLocal, rPc, rSets>>
             ELSE /\ rLocal' = ReplicaSet(d)
                  /\ rSets' = rSets + 1
                  /\ rPc' = "returned"
    /\ rCached' = CacheAfterGet(rCached)
    /\ rLast' = "poll"
    /\ rSteps' = rSteps + 1
    /\ UNCHANGED rCtx
    /\ UNCHANGED <<oldvars, wvars, xvars, pvars, evars>>

\* The replica's context is cancelled.
ReplicaCancel ==
    /\ rCtx = "live"
    /\ rCtx' = "cancelled"
    /\ rLast' = "cancel"
    /\ UNCHANGED <<rCached, rLocal, rPc, rSets, rPoll, rSteps>>
    /\ UNCHANGED <<oldvars, wvars, xvars, pvars, evars>>

\* Lines 741-742: the routine returns on ctx.Done().
ReplicaExit ==
    /\ rPc = "polling"
    /\ rCtx = "cancelled"
    /\ rPc' = "returned"
    /\ rLast' = "exit"
    /\ UNCHANGED <<rCached, rLocal, rCtx, rSets, rPoll, rSteps>>
    /\ UNCHANGED <<oldvars, wvars, xvars, pvars, evars>>

\* The replica's control-event handler receives a stream state from the
\* Primary and sets the local state.
ReplicaControlEvent ==
    /\ rSteps < MaxReplicaSteps
    /\ \E s \in {StreamStateConnected, StreamStateDisconnected} : rLocal' = s
    /\ rLast' = "event"
    /\ rSteps' = rSteps + 1
    /\ UNCHANGED <<rCached, rPc, rCtx, rSets, rPoll>>
    /\ UNCHANGED <<oldvars, wvars, xvars, pvars, evars>>

NextReplica ==
    \/ PrimaryWritesStatus
    \/ ReplicaPoll
    \/ ReplicaCancel
    \/ ReplicaExit
    \/ ReplicaControlEvent

\* C27: only the Primary writes the shared key; the replica's startup routine
\* and its control-event handler leave the key as it is and change the
\* replica's own state only.
C27_SingleWriter ==
    [][rCached' # rCached => rLast' = "primary"]_vars

\* The startup routine has set the local state, a control event has changed it
\* since, and the key still holds what the Primary wrote.
C27_Witness ==
    /\ rLast = "event"
    /\ rSets = 1
    /\ rCached = StreamStateConnected
    /\ rLocal = StreamStateDisconnected

\* The routine has not set the local state while it polls; once it has
\* returned it has set it once, or not at all and the context is cancelled;
\* a tick that reads CONNECTED or DISCONNECTED sets that state and returns,
\* any other tick polls again.
SnapshotSetsOnce ==
    /\ rPc = "polling" => rSets = 0
    /\ rPc = "returned" => (rSets = 1 \/ (rSets = 0 /\ rCtx = "cancelled"))
    /\ rLast = "poll" =>
           IF rPoll \in {StreamStateConnected, StreamStateDisconnected}
           THEN rPc = "returned" /\ rLocal = rPoll /\ rSets = 1
           ELSE rPc = "polling"

-----------------------------------------------------------------------------
(* main: the startup of the proxy, from the cache to the HTTP server.      *)

ConfigStateSynced == "SYNCED"
ConfigStateFailedToSync == "FAILED_TO_SYNC"
ConfigStateReadReplica == "READ_REPLICA"

\* Mutant: a failed initial FetchAndPopulate ends the process.
AfterFetch_ExitsOnError(err) == IF err THEN "exited" ELSE "subscribe"

\* Lines 447-458: after the initial FetchAndPopulate main goes on, whether it
\* failed or not.
AfterFetch(err) == "subscribe"

\* Lines 448-453: the config status after the initial FetchAndPopulate.
ConfigStatusAfterFetch(err) ==
    IF err THEN ConfigStateFailedToSync ELSE ConfigStateSynced

\* Lines 468-504: the streams main subscribes to.
StreamsOf(readReplica) ==
    IF readReplica
    THEN {"proxy:primary_to_replica_control_events", "proxy:sse_events"}
    ELSE {"saas"}

InitMain ==
    /\ pReadReplica = FALSE
    /\ pOffline = FALSE
    /\ pMetricsEnabled = FALSE
    /\ pPc = "flags"
    /\ pConfigStatus = ""
    /\ pConfigErr = FALSE
    /\ pFetch = "none"
    /\ pSubscribed = {}
    /\ pRoutines = {}
    /\ pExitAt = "none"

\* Line 506: metrics are sent when a post duration is set and the proxy is
\* not offline.
MetricsEnabled(metricPostDuration, offline) == metricPostDuration # 0 /\ ~offline

\* Lines 215-245: the flags are parsed.
MainFlags ==
    /\ pPc = "flags"
    /\ \E replica \in BOOLEAN, offline \in BOOLEAN, duration \in {0, 5} :
          /\ pReadReplica' = replica
          /\ pOffline' = offline
          /\ pMetricsEnabled' = MetricsEnabled(duration, offline)
    /\ pPc' = "cache"
    /\ UNCHANGED <<pConfigStatus, pConfigErr, pFetch, pSubscribed, pRoutines, pExitAt>>
    /\ UNCHANGED <<oldvars, wvars, xvars, rvars, evars>>

\* A step of main whose failure is fatal: it succeeds and main goes on, or
\* the process exits.
FatalStep(step, next) ==
    /\ pPc = step
    /\ \E ok \in BOOLEAN :
          IF ok THEN pPc' = next /\ pExitAt' = pExitAt
          ELSE pPc' = "exited" /\ pExitAt' = step

\* Lines 314-331: the cache is created and checked.
MainCache ==
    /\ FatalStep("cache", "client")
    /\ UNCHANGED <<pReadReplica, pOffline, pMetricsEnabled, pConfigStatus, pConfigErr,
                   pFetch, pSubscribed, pRoutines>>
    /\ UNCHANGED <<oldvars, wvars, xvars, rvars, evars>>

\* Lines 333-337: the client of the client service is created.
MainClient ==
    /\ FatalStep("client", "health")
    /\ UNCHANGED <<pReadReplica, pOffline, pMetricsEnabled, pConfigStatus, pConfigErr,
                   pFetch, pSubscribed, pRoutines>>
    /\ UNCHANGED <<oldvars, wvars, xvars, rvars, evars>>

\* Lines 370-379: the routine that keeps the stream status is started.
MainHealth ==
    /\ pPc = "health"
    /\ pRoutines' = pRoutines \cup
           {IF pReadReplica THEN "getStreamStatusForReplica" ELSE "VerifyStreamStatus"}
    /\ pPc' = "pushpin"
    /\ UNCHANGED <<pReadReplica, pOffline, pMetricsEnabled, pConfigStatus, pConfigErr,
                   pFetch, pSubscribed, pExitAt>>
    /\ UNCHANGED <<oldvars, wvars, xvars, rvars, evars>>

\* Lines 384-388: the Pushpin behind the stream interface.
MainPushpin ==
    /\ FatalStep("pushpin", "config")
    /\ UNCHANGED <<pReadReplica, pOffline, pMetricsEnabled, pConfigStatus, pConfigErr,
                   pFetch, pSubscribed, pRoutines>>
    /\ UNCHANGED <<oldvars, wvars, xvars, rvars, evars>>

\* Lines 422-439: the Primary's status worker is started; config.NewConfig,
\* whose error is logged.
MainConfig ==
    /\ pPc = "config"
    /\ pConfigErr' \in BOOLEAN
    /\ pPc' = IF pReadReplica THEN "subscribe" ELSE "fetch"
    /\ pRoutines' = IF pReadReplica THEN pRoutines ELSE pRoutines \cup {"StatusWorker"}
    /\ UNCHANGED <<pReadReplica, pOffline, pMetricsEnabled, pConfigStatus, pFetch,
                   pSubscribed, pExitAt>>
    /\ UNCHANGED <<oldvars, wvars, xvars, rvars, evars>>

\* Lines 447-458: the Primary's initial FetchAndPopulate.
MainFetch ==
    /\ pPc = "fetch"
    /\ \E err \in BOOLEAN :
          /\ pFetch' = IF err THEN "err" ELSE "nil"
          /\ pConfigStatus' = ConfigStatusAfterFetch(err)
          /\ pPc' = AfterFetch(err)
          /\ pExitAt' = IF AfterFetch(err) = "exited" THEN "fetch" ELSE pExitAt
    /\ UNCHANGED <<pReadReplica, pOffline, pMetricsEnabled, pConfigErr, pSubscribed, pRoutines>>
    /\ UNCHANGED <<oldvars, wvars, xvars, rvars, evars>>

\* Lines 468-504: the subscriptions of the role.
MainSubscribe ==
    /\ pPc = "subscribe"
    /\ pSubscribed' = StreamsOf(pReadReplica)
    /\ pConfigStatus' = IF pReadReplica THEN ConfigStateReadReplica ELSE pConfigStatus
    /\ pPc' = "metricsClient"
    /\ UNCHANGED <<pReadReplica, pOffline, pMetricsEnabled, pConfigErr, pFetch, pRoutines,
                   pExitAt>>
    /\ UNCHANGED <<oldvars, wvars, xvars, rvars, evars>>

\* Lines 506-513: the metric store and the client of the metrics service.
MainMetricsClient ==
    /\ FatalStep("metricsClient", "worker")
    /\ UNCHANGED <<pReadReplica, pOffline, pMetricsEnabled, pConfigStatus, pConfigErr,
                   pFetch, pSubscribed, pRoutines>>
    /\ UNCHANGED <<oldvars, wvars, xvars, rvars, evars>>

\* Lines 518-523: the Primary's metrics worker, when metrics are enabled.
MainWorker ==
    /\ pPc = "worker"
    /\ pRoutines' = IF ~pReadReplica /\ pMetricsEnabled
                    THEN pRoutines \cup {"worker"} ELSE pRoutines
    /\ pPc' = "serve"
    /\ UNCHANGED <<pReadReplica, pOffline, pMetricsEnabled, pConfigStatus, pConfigErr,
                   pFetch, pSubscribed, pExitAt>>
    /\ UNCHANGED <<oldvars, wvars, xvars, rvars, evars>>

\* Lines 525-606: the service and the HTTP server: SDK traffic is served.
MainServe ==
    /\ pPc = "serve"
    /\ pPc' = "serving"
    /\ UNCHANGED <<pReadReplica, pOffline, pMetricsEnabled, pConfigStatus, pConfigErr,
                   pFetch, pSubscribed, pRoutines, pExitAt>>
    /\ UNCHANGED <<oldvars, wvars, xvars, rvars, evars>>

NextMain ==
    \/ MainFlags
    \/ MainCache
    \/ MainClient
    \/ MainHealth
    \/ MainPushpin
    \/ MainConfig
    \/ MainFetch
    \/ MainSubscribe
    \/ MainMetricsClient
    \/ MainWorker
    \/ MainServe

\* C30 as stated: after the initial FetchAndPopulate returned an error the
\* process does not go on to subscribe to the upstream stream and serve.
C30_Original_FetchFailureFailsStartup ==
    pFetch = "err" => (pSubscribed = {} /\ pPc # "serving")

\* C30, amended: a failure of the Primary's initial FetchAndPopulate does not
\* fail startup: the config status is FAILED_TO_SYNC and the process goes on
\* to subscribe to the upstream stream and to serve SDK traffic; if it exits
\* later it is because the metrics client could not be created.
C30_FetchFailureDoesNotFailStartup ==
    pFetch = "err" =>
        /\ pConfigStatus = ConfigStateFailedToSync
        /\ pPc \in {"subscribe", "metricsClient", "worker", "serve", "serving", "exited"}
        /\ pPc # "subscribe" => pSubscribed = {"saas"}
        /\ pPc = "exited" => pExitAt = "metricsClient"

\* The Primary serves SDK traffic, subscribed to the upstream stream, after
\* its initial FetchAndPopulate failed.
C30_Witness ==
    /\ pFetch = "err"
    /\ pPc = "serving"
    /\ pSubscribed = {"saas"}
    /\ pConfigStatus = ConfigStateFailedToSync

-----------------------------------------------------------------------------
(* Failures inside SaasStreamOnDisconnect                                  *)

\* The positions of the handler's calls that returned an error.
FailedCalls == {i \in 1..Len(hLog) : hLog[i].ret = "err"}

\* C31: SaasStreamOnDisconnect tolerates step failures: the handler never
\* ends at a failed SetUnhealthy, poll or Close; when it has returned, every
\* stream of the snapshot was closed and the publish of the DISCONNECTED
\* event was called, whichever of the earlier calls failed.  A failed publish
\* ends the handler: it is the last call and nothing was put on the stream.
C31_DisconnectToleratesFailures ==
    hKind = "disconnect" =>
        /\ \A i \in FailedCalls :
              hLog[i].step # "Publish" => ~(HandlerDone /\ i = Len(hLog))
        /\ HandlerDone =>
              /\ \A e \in hSnapshot : hCloseCalls[e] = 1
              /\ Cardinality(CallsOf("Publish")) = 1
        /\ \A i \in FailedCalls :
              hLog[i].step = "Publish" =>
                  /\ HandlerDone
                  /\ i = Len(hLog)
                  /\ BusReceived = <<>>

\* C31 witness: SetUnhealthy, the poll and the Close of e1 failed, e2 was
\* closed all the same and the DISCONNECTED event is on the control stream.
C31_Witness ==
    /\ hKind = "disconnect"
    /\ HandlerDone
    /\ hSnapshot = {"e1", "e2"}
    /\ hLog[1] = [step |-> "SetUnhealthy", id |-> "", ret |-> "err"]
    /\ hLog[2] = [step |-> "Poll", id |-> "", ret |-> "err"]
    /\ hLog[4] = [step |-> "Close", id |-> "e1", ret |-> "err"]
    /\ hLog[5] = [step |-> "Close", id |-> "e2", ret |-> "ok"]
    /\ hLog[6] = [step |-> "Publish", id |-> "", ret |-> "ok"]
    /\ BusReceived = <<DisconnectedEvent>>

-----------------------------------------------------------------------------
(* Config.FetchAndPopulate, step by step.  Populate is taken here as the    *)
(* repo writes of its goroutines, one per environment of the staged config; *)
(* its own behaviour is the matter of the Populate component above.         *)

\* The calls of FetchAndPopulate of a run.
MaxFetches == 2

\* Mutant: the repos are populated before the delete notifications are sent.
FetchSteps_PopulateBeforeNotify ==
    <<"authenticate", "retrieveConfig", "inventory.Cleanup", "Populate", "notifySDKs">>

\* The steps of FetchAndPopulate in program order.
FetchSteps ==
    <<"authenticate", "retrieveConfig", "inventory.Cleanup", "notifySDKs", "Populate">>

FetchReturned == Len(FetchSteps) + 1

\* The step of FetchAndPopulate that runs next.
FetchStep == IF tPc \in 1..Len(FetchSteps) THEN FetchSteps[tPc] ELSE "none"

\* The delete notifications inventory.Cleanup can return.
NotificationLists == {<<>>, <<"delete f1">>, <<"delete f1", "delete s1">>,
                      <<"delete s1", "delete f1">>}

InitFetch ==
    /\ tPc = 0
    /\ tLog = <<>>
    /\ tNotifications = <<>>
    /\ tSent = 0
    /\ tConfig = {}
    /\ tWritten = {}
    /\ tPopulate = "no"
    /\ tRet = "none"
    /\ tRuns = 0

\* if err != nil { return err }: a step that fails ends FetchAndPopulate with
\* its error; otherwise the next step runs, and the result of the last step
\* is what FetchAndPopulate returns.
StepDone(err) ==
    IF err # "nil"
    THEN tPc' = FetchReturned /\ tRet' = err
    ELSE IF tPc = Len(FetchSteps)
    THEN tPc' = FetchReturned /\ tRet' = "nil"
    ELSE tPc' = tPc + 1 /\ tRet' = tRet

\* A call of FetchAndPopulate begins (startup, or a reload); the writes of an
\* earlier call have ended.
FetchBegin ==
    /\ tPc \in {0, FetchReturned}
    /\ tPopulate # "no" => tWritten = tConfig
    /\ tRuns < MaxFetches
    /\ tRuns' = tRuns + 1
    /\ tPc' = 1
    /\ tLog' = <<>>
    /\ tNotifications' = <<>>
    /\ tSent' = 0
    /\ tConfig' = {}
    /\ tWritten' = {}
    /\ tPopulate' = "no"
    /\ tRet' = "none"
    /\ UNCHANGED exceptFetch

\* authResp, err := authenticate(c.key, c.ClientService)
Authenticate ==
    /\ FetchStep = "authenticate"
    /\ \E ok \in BOOLEAN :
          /\ tLog' = Append(tLog, [call |-> "authenticate", arg |-> "",
                                   ret |-> IF ok THEN "nil" ELSE "err"])
          /\ StepDone(IF ok THEN "nil" ELSE "authenticate")
    /\ UNCHANGED <<tNotifications, tSent, tConfig, tWritten, tPopulate, tRuns>>
    /\ UNCHANGED exceptFetch

\* proxyConfig, err := retrieveConfig(...)
RetrieveConfig ==
    /\ FetchStep = "retrieveConfig"
    /\ \E ok \in BOOLEAN :
          /\ tLog' = Append(tLog, [call |-> "retrieveConfig", arg |-> "",
                                   ret |-> IF ok THEN "nil" ELSE "err"])
          /\ IF ok THEN tConfig' \in SUBSET Envs ELSE tConfig' = tConfig
          /\ StepDone(IF ok THEN "nil" ELSE "retrieveConfig")
    /\ UNCHANGED <<tNotifications, tSent, tWritten, tPopulate, tRuns>>
    /\ UNCHANGED exceptFetch

\* notificationsToSend, err := inventory.Cleanup(ctx, c.key, proxyConfig)
Cleanup ==
    /\ FetchStep = "inventory.Cleanup"
    /\ \E ok \in BOOLEAN :
          /\ tLog' = Append(tLog, [call |-> "inventory.Cleanup", arg |-> "",
                                   ret |-> IF ok THEN "nil" ELSE "err"])
          /\ IF ok THEN tNotifications' \in NotificationLists
             ELSE tNotifications' = tNotifications
          /\ StepDone(IF ok THEN "nil" ELSE "inventory.Cleanup")
    /\ UNCHANGED <<tSent, tConfig, tWritten, tPopulate, tRuns>>
    /\ UNCHANGED exceptFetch

\* notifySDKs: c.stream.Publish of the next notification; a failed publish
\* ends the loop and FetchAndPopulate.
NotifyPublish ==
    /\ FetchStep = "notifySDKs"
    /\ tSent < Len(tNotifications)
    /\ \E ok \in BOOLEAN :
          /\ tLog' = Append(tLog, [call |-> "Publish", arg |-> tNotifications[tSent + 1],
                                   ret |-> IF ok THEN "nil" ELSE "err"])
          /\ IF ok
             THEN tSent' = tSent + 1 /\ UNCHANGED <<tPc, tRet>>
             ELSE tSent' = tSent /\ StepDone("notifySDKs")
    /\ UNCHANGED <<tNotifications, tConfig, tWritten, tPopulate, tRuns>>
    /\ UNCHANGED exceptFetch

\* notifySDKs returns nil after its loop.
NotifyReturn ==
    /\ FetchStep = "notifySDKs"
    /\ tSent = Len(tNotifications)
    /\ StepDone("nil")
    /\ UNCHANGED <<tLog, tNotifications, tSent, tConfig, tWritten, tPopulate, tRuns>>
    /\ UNCHANGED exceptFetch

\* A write of the environments' populate failed.
WriteFailed == \E i \in 1..Len(tLog) : tLog[i].call = "repo write" /\ tLog[i].ret = "err"

\* c.proxyConfig = proxyConfig; c.Populate(...): the fetched config is staged
\* and Populate starts a goroutine per environment.
FetchPopulateEnter ==
    /\ FetchStep = "Populate"
    /\ tPopulate = "no"
    /\ tPopulate' = "running"
    /\ tLog' = Append(tLog, [call |-> "Populate", arg |-> "", ret |-> "nil"])
    /\ UNCHANGED <<tPc, tNotifications, tSent, tConfig, tWritten, tRet, tRuns>>
    /\ UNCHANGED exceptFetch

\* The goroutine of an environment of the staged config writes the repos.
\* The goroutines go on after Populate has returned an error.
FetchPopulateWrite ==
    /\ tPopulate # "no"
    /\ \E e \in tConfig \ tWritten, ok \in BOOLEAN :
          /\ tLog' = Append(tLog, [call |-> "repo write", arg |-> e,
                                   ret |-> IF ok THEN "nil" ELSE "err"])
          /\ tWritten' = tWritten \cup {e}
    /\ UNCHANGED <<tPc, tNotifications, tSent, tConfig, tPopulate, tRet, tRuns>>
    /\ UNCHANGED exceptFetch

\* return c.Populate(...): the first error received, or nil when every
\* goroutine has sent nil.
FetchPopulateReturn ==
    /\ FetchStep = "Populate"
    /\ tPopulate = "running"
    /\ WriteFailed \/ tWritten = tConfig
    /\ tPopulate' = "returned"
    /\ StepDone(IF WriteFailed THEN "Populate" ELSE "nil")
    /\ UNCHANGED <<tLog, tNotifications, tSent, tConfig, tWritten, tRuns>>
    /\ UNCHANGED exceptFetch

NextFetch ==
    \/ FetchBegin
    \/ Authenticate
    \/ RetrieveConfig
    \/ Cleanup
    \/ NotifyPublish
    \/ NotifyReturn
    \/ FetchPopulateEnter
    \/ FetchPopulateWrite
    \/ FetchPopulateReturn

-----------------------------------------------------------------------------
(* Properties of FetchAndPopulate                                          *)

\* The rank of a logged call in the order authenticate, fetch proxy config,
\* inventory cleanup, publish delete notifications, populate repos.
RankOf(call) ==
    CASE call = "authenticate" -> 1
      [] call = "retrieveConfig" -> 2
      [] call = "inventory.Cleanup" -> 3
      [] call = "Publish" -> 4
      [] OTHER -> 5

\* The notifications published so far, in the order of their publish calls.
RECURSIVE PublishedIn(_)
PublishedIn(log) ==
    IF log = <<>> THEN <<>>
    ELSE LET rest == PublishedIn(SubSeq(log, 1, Len(log) - 1))
             last == log[Len(log)]
         IN IF last.call = "Publish" /\ last.ret = "nil" THEN Append(rest, last.arg)
            ELSE rest

\* C32: FetchAndPopulate runs its steps in the order authenticate, fetch
\* proxy config, inventory cleanup, publish delete notifications, populate
\* repos, each of the first three at most once and none without the one
\* before; the error of the first failing step is returned and no later step
\* runs (after a failed publish no repo is written); and when a repo is
\* written all delete notifications have been published, in their order.
C32_FetchAndPopulateOrder ==
    /\ \A i, j \in 1..Len(tLog) : i < j => RankOf(tLog[i].call) <= RankOf(tLog[j].call)
    /\ \A i \in 1..Len(tLog) :
          /\ RankOf(tLog[i].call) <= 3 => i = RankOf(tLog[i].call)
          /\ RankOf(tLog[i].call) > 3 => Len(tLog) >= 3
          /\ (tLog[i].ret = "err" /\ RankOf(tLog[i].call) <= 4) =>
                /\ i = Len(tLog)
                /\ tPc = FetchReturned
                /\ tRet = (IF tLog[i].call = "Publish" THEN "notifySDKs" ELSE tLog[i].call)
          /\ tLog[i].call \in {"Populate", "repo write"} =>
                /\ PublishedIn(SubSeq(tLog, 1, i - 1)) = tNotifications
                /\ \A k \in 1..(i - 1) : tLog[k].ret = "nil" \/ tLog[k].call = "repo write"
    /\ tRet = "nil" => (tWritten = tConfig /\ PublishedIn(tLog) = tNotifications)
    /\ tRet = "Populate" => \E i \in 1..Len(tLog) :
                               tLog[i].call = "repo write" /\ tLog[i].ret = "err"
    /\ tRet \in {"none", "nil", "authenticate", "retrieveConfig", "inventory.Cleanup",
                 "notifySDKs", "Populate"}

\* C32 witness: two delete notifications were published in their order and
\* then both environments were written; FetchAndPopulate returned nil.
C32_Witness ==
    /\ tRet = "nil"
    /\ tNotifications = <<"delete s1", "delete f1">>
    /\ Len(tLog) = 8
    /\ tLog[4] = [call |-> "Publish", arg |-> "delete s1", ret |-> "nil"]
    /\ tLog[5] = [call |-> "Publish", arg |-> "delete f1", ret |-> "nil"]
    /\ tLog[6].call = "Populate"
    /\ tLog[7].call = "repo write"
    /\ tLog[8].call = "repo write"

\* C32 witness of a failure: the second publish failed, FetchAndPopulate has
\* returned its error and no repo was written.
C32_WitnessFailedPublish ==
    /\ tRet = "notifySDKs"
    /\ tConfig = {"e1", "e2"}
    /\ tWritten = {}
    /\ Len(tLog) = 5
    /\ tLog[5] = [call |-> "Publish", arg |-> "delete s1", ret |-> "err"]

-----------------------------------------------------------------------------
(* The memoize cache against a plain decode                                *)

\* The last call was a read served as a hit.
ServedAsHit == mLast.op = "read" /\ mLast.branch = "hit"

\* C33: a read that is served as a hit leaves the destination equal to what
\* decoding the given bytes produces, whatever writes, reads and changes by
\* callers of the objects they passed or received came before.
C33_HitEqualsDecode ==
    (ServedAsHit /\ WellFormed(mLast.bytes)) => mDest = Unmarshal(mLast.bytes)

-----------------------------------------------------------------------------
(* Refresher.HandleMessage on any message                                  *)

\* C34: Refresher.HandleMessage returns normally, nil or an error, for every
\* message, the api-key-added and api-key-removed messages with an empty
\* environments list included: no message makes the handler panic, which
\* would end the subscription that delivered it.
C34_HandleMessageReturns ==
    /\ cpc # "panicked"
    /\ cResult.err # "panic: index out of range"

-----------------------------------------------------------------------------
(* A Read Replica following the Primary: the Primary's handlers set the     *)
(* shared stream status and publish control events; the replica applies the *)
(* events in order while its startup routine reads the status once.  The    *)
(* subscription and the routine run in goroutines of their own.             *)

InitFollow ==
    /\ repLocal = StreamStateInitializing
    /\ repApplied = 0
    /\ repSnapPc = "polling"
    /\ repSnapRead = "none"
    /\ repBusAtGet = 0
    /\ repNewerApplied = FALSE

\* The replica's message handler applies the next control event: CONNECTED
\* sets the local state healthy, DISCONNECTED unhealthy.
FollowControlEvent ==
    /\ repApplied < Len(controlBus)
    /\ repLocal' = ReplicaSet(IF controlBus[repApplied + 1].domain = StreamStateConnected
                              THEN "SetHealthy" ELSE "SetUnhealthy")
    /\ repApplied' = repApplied + 1
    /\ repNewerApplied' = (repSnapPc = "set" /\ repApplied + 1 > repBusAtGet)
    /\ UNCHANGED <<repSnapPc, repSnapRead, repBusAtGet>>
    /\ UNCHANGED exceptFollow

\* One tick of getStreamStatusForReplica up to its decision: c.Get reads the
\* shared status; the routine polls again or goes on to set the local state.
SnapshotGet ==
    /\ repSnapPc = "polling"
    /\ \E getErr \in BOOLEAN :
          LET d == SnapshotDecision(getErr, healthCached) IN
          /\ d # "continue"
          /\ repSnapRead' = d
          /\ repSnapPc' = "set"
    /\ repBusAtGet' = Len(controlBus)
    /\ repNewerApplied' = FALSE
    /\ UNCHANGED <<repLocal, repApplied>>
    /\ UNCHANGED exceptFollow

\* h.SetHealthy / h.SetUnhealthy of the routine, then return.
SnapshotSet ==
    /\ repSnapPc = "set"
    /\ repLocal' = ReplicaSet(repSnapRead)
    /\ repSnapPc' = "returned"
    /\ UNCHANGED <<repApplied, repSnapRead, repBusAtGet, repNewerApplied>>
    /\ UNCHANGED exceptFollow

NextFollow ==
    \/ NextHandlers
    \/ FollowControlEvent
    \/ SnapshotGet
    \/ SnapshotSet

\* No handler of the Primary is running.
HandlerFinished == hKind # "none" /\ HandlerDone

\* The replica has applied every control event published so far.
AllEventsApplied == repApplied = Len(controlBus)

\* C35: whenever a handler of the Primary has finished and the replica has
\* applied every control event published so far (at least one), the
\* replica's in-memory stream state equals the state stored under the shared
\* stream-health key, also when SetHealthy, SetUnhealthy or the control
\* publish failed during the handler.
C35_ReplicaMatchesSharedStatus ==
    (HandlerFinished /\ AllEventsApplied /\ repApplied > 0 /\ repSnapPc = "polling")
        => repLocal = healthCached

\* The step of the startup routine that sets the local state.
SnapshotSets == repSnapPc = "set" /\ repSnapPc' = "returned"

\* The Primary's shared status is the state of the last event it published.
PrimaryAgrees ==
    /\ controlBus # <<>>
    /\ healthCached = controlBus[Len(controlBus)].domain

\* Both have run: the routine has returned and every event is applied.
BothHaveRun == repSnapPc = "returned" /\ AllEventsApplied /\ HandlerFinished

\* C36: the startup routine never replaces a state the replica has applied
\* from a control event published after the routine's read with the older
\* state it read; and once the routine has returned and every control event
\* is applied, the replica's state is the Primary's most recent state.
C36_SnapshotKeepsNewerState ==
    /\ [][(SnapshotSets /\ repNewerApplied) => repLocal' = repLocal]_vars
    /\ []((BothHaveRun /\ PrimaryAgrees) => repLocal = healthCached)

\* The race without any failed call: the routine read CONNECTED, the Primary
\* then lost the upstream stream, set DISCONNECTED and published it, the
\* replica applied the event, and the routine set CONNECTED after that.
StaleSnapshotApplied ==
    /\ BothHaveRun
    /\ hKind = "disconnect"
    /\ \A i \in 1..Len(hLog) : hLog[i].ret = "ok"
    /\ healthCached = StreamStateDisconnected
    /\ controlBus = <<ConnectedEvent, DisconnectedEvent>>
    /\ repNewerApplied
    /\ repLocal = StreamStateConnected

-----------------------------------------------------------------------------
(* SDK /stream requests against the on-disconnect handler.  The proxy       *)
(* service calls HealthySaasStream and then SDKStreamConnected; the request *)
(* runs in the HTTP server's goroutine, the handler in the SSE client's.    *)

InitStreams == sPending = {}

\* The health check of a /stream request passes: the request is accepted.
StreamCheck ==
    /\ \E e \in Envs \ sPending, statusErr \in BOOLEAN :
          /\ HealthySaasStream(statusErr)
          /\ sPending' = sPending \cup {e}
    /\ UNCHANGED <<hvars, fvars, mvars, cvars, qvars>>
    /\ UNCHANGED <<wvars, xvars, rvars, pvars, tvars, yvars, kvars, gvars>>

\* SDKStreamConnected: connectedStreams.Set(envID, "") of an accepted request.
StreamRegister ==
    /\ \E e \in sPending :
          /\ connectedStreams' = connectedStreams \cup {e}
          /\ sPending' = sPending \ {e}
    /\ UNCHANGED <<hKind, hIdx, hHung, hLog, hStatus, hToClose, hSnapshot,
                   hCloseCalls, hPublishOk, hBusAtStart, hTimedOut, healthInMem,
                   healthCached, controlBus>>
    /\ UNCHANGED <<fvars, mvars, cvars, qvars>>
    /\ UNCHANGED <<wvars, xvars, rvars, pvars, tvars, yvars, kvars, gvars>>

NextStreams ==
    \/ NextHandlers
    \/ StreamCheck
    \/ StreamRegister

\* The on-disconnect handler has finished and its SetUnhealthy succeeded: from
\* that call on no /stream request passes the health check.
DisconnectFinished ==
    /\ hKind = "disconnect"
    /\ HandlerDone
    /\ hLog[1] = [step |-> "SetUnhealthy", id |-> "", ret |-> "ok"]

\* C37: under any interleaving of SDK /stream requests (health check, then
\* registration) with the on-disconnect handler (set unhealthy, snapshot,
\* close), when the handler has finished every registered SDK stream is one
\* the handler called Close for.
C37_NoStreamSurvivesDisconnect ==
    DisconnectFinished => \A e \in connectedStreams : hCloseCalls[e] = 1

-----------------------------------------------------------------------------
(* Delivery of RedisStream.Sub                                             *)

\* The messages handed to the handler so far.
HandedMessages == {xHandled[i] : i \in 1..Len(xHandled)}

\* No message was handed to the handler twice.
HandedAtMostOnce ==
    \A i \in 1..Len(xHandled) : \A j \in 1..Len(xHandled) :
        i # j => xHandled[i] # xHandled[j]

\* Every message between the subscription's start position and the position
\* its current XRead reads after has been handed to the handler: a later
\* XRead does not return it any more.
NoneSkipped ==
    xReads > 0 => \A msg \in (xStart + 1)..xFrom : msg \in HandedMessages

\* C38: RedisStream.Sub delivers every message exactly once: a message
\* published after the subscription's start position is handed to the handler
\* once and only once, also when it was published while the handler was busy
\* with an earlier message, for the default start position and an explicit id.
C38_ExactlyOnce ==
    /\ HandedAtMostOnce
    /\ NoneSkipped

-----------------------------------------------------------------------------
(* The goroutines of Config.Populate: one per environment, a closer, and    *)
(* the caller ranging over errchan.  populate's writes are taken as one     *)
(* step with a result.                                                      *)

\* The environments of a staged config in the model.
MaxEnvironments == 3

\* The capacity of the semaphore channel, 1000 in the program, scaled down
\* so that there are more environments than values it holds.
SemaphoreWidth == 2

Goroutines == 1..MaxEnvironments

InitGo ==
    /\ kN = 0
    /\ kpc = [g \in Goroutines |-> "done"]
    /\ kErr = [g \in Goroutines |-> FALSE]
    /\ kSem = 0
    /\ kClosed = FALSE
    /\ kRet = "none"

\* Populate is called: wg.Add(1) and a go statement per environment, then
\* the closer is started and the caller ranges over errchan.
GoSpawn ==
    /\ kN = 0
    /\ \E n \in 1..MaxEnvironments :
          /\ kN' = n
          /\ kpc' = [g \in Goroutines |-> IF g <= n THEN "start" ELSE "done"]
    /\ UNCHANGED <<kErr, kSem, kClosed, kRet>>
    /\ UNCHANGED exceptGo

\* semaphore <- struct{}{}: blocks while the channel is full.
GoAcquire ==
    /\ \E g \in Goroutines :
          /\ kpc[g] = "start"
          /\ kSem < SemaphoreWidth
          /\ kSem' = kSem + 1
          /\ kpc' = [kpc EXCEPT ![g] = "populate"]
    /\ UNCHANGED <<kN, kErr, kClosed, kRet>>
    /\ UNCHANGED exceptGo

\* err := populate(...)
GoPopulate ==
    /\ \E g \in Goroutines, failed \in BOOLEAN :
          /\ kpc[g] = "populate"
          /\ kErr' = [kErr EXCEPT ![g] = failed]
          /\ kpc' = [kpc EXCEPT ![g] = "send"]
    /\ UNCHANGED <<kN, kSem, kClosed, kRet>>
    /\ UNCHANGED exceptGo

\* errchan <- err meets the receive of the caller's range loop (the channel
\* has no buffer): a nil is dropped, a non-nil error is returned at once.
\* Once Populate has returned nobody receives.
GoSend ==
    /\ kRet = "none"
    /\ \E g \in Goroutines :
          /\ kpc[g] = "send"
          /\ kpc' = [kpc EXCEPT ![g] = "deferred"]
          /\ kRet' = IF kErr[g] THEN "err" ELSE kRet
    /\ UNCHANGED <<kN, kErr, kSem, kClosed>>
    /\ UNCHANGED exceptGo

\* The deferred function: wg.Done(), then <-semaphore.
GoDeferred ==
    /\ \E g \in Goroutines :
          /\ kpc[g] = "deferred"
          /\ kSem' = kSem - 1
          /\ kpc' = [kpc EXCEPT ![g] = "done"]
    /\ UNCHANGED <<kN, kErr, kClosed, kRet>>
    /\ UNCHANGED exceptGo

\* The closer: wg.Wait() returns when every goroutine has called wg.Done;
\* errchan and semaphore are closed.
CloserCloses ==
    /\ kN > 0
    /\ ~kClosed
    /\ \A g \in Goroutines : kpc[g] = "done"
    /\ kClosed' = TRUE
    /\ UNCHANGED <<kN, kpc, kErr, kSem, kRet>>
    /\ UNCHANGED exceptGo

\* The range loop ends on the closed channel: Populate returns nil.
ErrchanClosed ==
    /\ kClosed
    /\ kRet = "none"
    /\ kRet' = "nil"
    /\ UNCHANGED <<kN, kpc, kErr, kSem, kClosed>>
    /\ UNCHANGED exceptGo

NextGo ==
    \/ GoSpawn
    \/ GoAcquire
    \/ GoPopulate
    \/ GoSend
    \/ GoDeferred
    \/ CloserCloses
    \/ ErrchanClosed

\* Populate has returned.
PopulateReturned == kRet # "none"

\* Every goroutine Populate started, and the closer, have terminated.
AllTerminated == kClosed /\ \A g \in Goroutines : kpc[g] = "done"

\* Populate returns, with more environments than the semaphore is wide too.
PopulateReturns == (kN > 0) ~> PopulateReturned

\* C39: Populate leaves no goroutine behind: after it has returned, with nil
\* or with the first error, every per-environment goroutine and the closer
\* eventually terminate; and Populate returns for any number of
\* environments, more than the semaphore holds included.
C39_NoGoroutineLeftBehind ==
    /\ PopulateReturned ~> AllTerminated
    /\ PopulateReturns

\* A goroutine is blocked for good on its send after Populate returned the
\* error of another.
BlockedOnSend ==
    /\ kRet = "err"
    /\ \E g \in Goroutines : kpc[g] = "send"
    /\ \A g \in Goroutines : kpc[g] \in {"send", "start", "done"}

-----------------------------------------------------------------------------
(* FetchAndPopulate (the reload of the on-connect and on-disconnect         *)
(* handlers) and the refresher's handleAddEnvironmentEvent on one Config.   *)
(* Both stage their config in the field Config.proxyConfig, which Populate  *)
(* reads when it starts to range; no lock guards the field.  A config is    *)
(* the set of its environments.                                             *)

\* FetchAndPopulate calls in the model.
MaxReloads == 2

\* What retrieveConfig can return.
RetrievedConfigs == {{"e1"}, {"e1", "e2"}}

\* The environments of an environment-added message.
AddedEnvLists == {<<"e3">>, <<"e3", "e4">>}

InitStaged ==
    /\ gConfig = {}
    /\ gFpc = "idle"
    /\ gFetched = {}
    /\ gRead = {}
    /\ gWritten = {}
    /\ gRet = "none"
    /\ gReloads = 0
    /\ gRpc = "idle"
    /\ gREnvs = <<>>
    /\ gRFetched = {}
    /\ gRRead = {}

\* FetchAndPopulate up to notifySDKs: an error of any of these steps
\* is returned, otherwise the retrieved config is held in a local.
ReloadFetch ==
    /\ gFpc = "idle"
    /\ gReloads < MaxReloads
    /\ gReloads' = gReloads + 1
    /\ gRead' = {}
    /\ gWritten' = {}
    /\ \/ /\ \E cfg \in RetrievedConfigs : gFetched' = cfg
          /\ gFpc' = "fetched"
          /\ gRet' = "none"
       \/ /\ gFetched' = {}
          /\ gRet' = "err"
          /\ UNCHANGED gFpc
    /\ UNCHANGED <<gConfig, gRpc, gREnvs, gRFetched, gRRead>>
    /\ UNCHANGED exceptStaged

\* c.proxyConfig = proxyConfig
ReloadStage ==
    /\ gFpc = "fetched"
    /\ gConfig' = gFetched
    /\ gFpc' = "staged"
    /\ UNCHANGED <<gFetched, gRead, gWritten, gRet, gReloads, gRpc, gREnvs, gRFetched, gRRead>>
    /\ UNCHANGED exceptStaged

\* Populate evaluates c.proxyConfig once, when its range statement starts.
ReloadRange ==
    /\ gFpc = "staged"
    /\ gRead' = gConfig
    /\ gFpc' = "ranged"
    /\ UNCHANGED <<gConfig, gFetched, gWritten, gRet, gReloads, gRpc, gREnvs, gRFetched, gRRead>>
    /\ UNCHANGED exceptStaged

\* Populate writes the environments it ranged over and FetchAndPopulate
\* returns what Populate returns: nil when every write succeeded.
ReloadPopulated ==
    /\ gFpc = "ranged"
    /\ \/ /\ gWritten' = gRead
          /\ gRet' = "nil"
       \/ /\ gRead # {}
          /\ \E done \in SUBSET gRead : done # gRead /\ gWritten' = done
          /\ gRet' = "err"
    /\ gFpc' = "idle"
    /\ UNCHANGED <<gConfig, gFetched, gRead, gReloads, gRpc, gREnvs, gRFetched, gRRead>>
    /\ UNCHANGED exceptStaged

\* The refresher receives an environment-added message.
AddedBegin ==
    /\ gRpc = "idle"
    /\ \E envs \in AddedEnvLists : gREnvs' = envs
    /\ gRpc' = "loop"
    /\ gRFetched' = {}
    /\ gRRead' = {}
    /\ UNCHANGED <<gConfig, gFpc, gFetched, gRead, gWritten, gRet, gReloads>>
    /\ UNCHANGED exceptStaged

\* PageProxyConfig for the next environment; an error returns.
AddedFetch ==
    /\ gRpc = "loop"
    /\ gREnvs # <<>>
    /\ \/ /\ gRFetched' = {Head(gREnvs)}
          /\ gRpc' = "fetched"
       \/ /\ gRpc' = "deferred"
          /\ UNCHANGED gRFetched
    /\ UNCHANGED <<gConfig, gFpc, gFetched, gRead, gWritten, gRet, gReloads, gREnvs, gRRead>>
    /\ UNCHANGED exceptStaged

\* s.config.SetProxyConfig(proxyConfig)
AddedStage ==
    /\ gRpc = "fetched"
    /\ gConfig' = gRFetched
    /\ gRpc' = "staged"
    /\ UNCHANGED <<gFpc, gFetched, gRead, gWritten, gRet, gReloads, gREnvs, gRFetched, gRRead>>
    /\ UNCHANGED exceptStaged

\* The refresher's Populate starts to range.
AddedRange ==
    /\ gRpc = "staged"
    /\ gRRead' = gConfig
    /\ gRpc' = "ranged"
    /\ UNCHANGED <<gConfig, gFpc, gFetched, gRead, gWritten, gRet, gReloads, gREnvs, gRFetched>>
    /\ UNCHANGED exceptStaged

\* The refresher's Populate returns: on nil the loop goes on with the next
\* environment, on an error the handler returns.
AddedPopulated ==
    /\ gRpc = "ranged"
    /\ \/ /\ gREnvs' = Tail(gREnvs)
          /\ gRpc' = IF Tail(gREnvs) = <<>> THEN "deferred" ELSE "loop"
       \/ /\ gRRead # {}
          /\ gRpc' = "deferred"
          /\ UNCHANGED gREnvs
    /\ UNCHANGED <<gConfig, gFpc, gFetched, gRead, gWritten, gRet, gReloads, gRFetched, gRRead>>
    /\ UNCHANGED exceptStaged

\* The deferred function: s.config.SetProxyConfig([]domain.ProxyConfig{})
AddedDeferred ==
    /\ gRpc = "deferred"
    /\ gConfig' = {}
    /\ gRpc' = "idle"
    /\ gREnvs' = <<>>
    /\ UNCHANGED <<gFpc, gFetched, gRead, gWritten, gRet, gReloads, gRFetched, gRRead>>
    /\ UNCHANGED exceptStaged

NextStaged ==
    \/ ReloadFetch
    \/ ReloadStage
    \/ ReloadRange
    \/ ReloadPopulated
    \/ AddedBegin
    \/ AddedFetch
    \/ AddedStage
    \/ AddedRange
    \/ AddedPopulated
    \/ AddedDeferred

\* Each Populate ranges over the config its own caller staged.
PopulateReadsOwnConfig ==
    /\ gFpc = "ranged" => gRead = gFetched
    /\ gRpc = "ranged" => gRRead = gRFetched

\* A FetchAndPopulate that returned nil wrote every environment it fetched.
ReloadSuccessMeansWritten ==
    (gFpc = "idle" /\ gRet = "nil") => gFetched \subseteq gWritten

\* C40: when FetchAndPopulate and the refresher's environment-added handling
\* run concurrently on one Config, each Populate writes exactly the config
\* its own caller staged, so a FetchAndPopulate that returned nil has written
\* every environment it fetched.
C40_StagedConfigIsolated == PopulateReadsOwnConfig /\ ReloadSuccessMeansWritten

\* FetchAndPopulate returned nil and wrote nothing: the refresher's deferred
\* clear ran between its assignment and the range of its Populate.
ReloadWroteNothing ==
    /\ gFpc = "idle"
    /\ gRet = "nil"
    /\ gFetched # {}
    /\ gWritten = {}

-----------------------------------------------------------------------------

Init ==
    /\ InitForwarder /\ InitHandlers /\ InitMemoize /\ InitConfig /\ InitQueue
    /\ InitSub /\ InitWrapper /\ InitReplica /\ InitMain
    /\ InitFetch /\ InitFollow /\ InitStreams /\ InitGo /\ InitStaged

SpecForwarder == Init /\ [][NextForwarder]_vars

SpecHandlers == Init /\ [][NextHandlers]_vars

SpecMemoize == Init /\ [][NextMemoize]_vars

SpecPopulate == Init /\ [][NextPopulate]_vars

SpecRefresher == Init /\ [][NextRefresher]_vars

SpecQueue == Init /\ [][NextQueue]_vars

SpecSub == Init /\ [][NextSub]_vars

SpecWrapper == Init /\ [][NextWrapper]_vars

SpecReplica == Init /\ [][NextReplica]_vars

SpecMain == Init /\ [][NextMain]_vars

SpecGo == Init /\ [][NextGo]_vars

SpecStaged == Init /\ [][NextStaged]_vars

\* Every goroutine that can take a step is scheduled.
SpecGoFair ==
    /\ SpecGo
    /\ WF_vars(GoAcquire) /\ WF_vars(GoPopulate) /\ WF_vars(GoSend) /\ WF_vars(GoDeferred)
    /\ WF_vars(CloserCloses) /\ WF_vars(ErrchanClosed)

SpecStreams == Init /\ [][NextStreams]_vars

SpecFollow == Init /\ [][NextFollow]_vars

SpecRefresherAnyMessage == Init /\ [][NextRefresherAnyMessage]_vars

SpecMemoizeAliased == Init /\ [][NextMemoizeAliased]_vars

SpecFetch == Init /\ [][NextFetch]_vars

SpecWrapperFair ==
    /\ SpecWrapper
    /\ WF_vars(LoopCheck) /\ WF_vars(OnDisconnect) /\ WF_vars(Backoff)

SpecListen == Init /\ [][NextListen]_vars

SpecListenFair == SpecListen /\ WF_vars(ListenClose) /\ WF_vars(RangeEnd)

\* The handler runs in the SSE client's goroutine: a call that can return
\* does return, and a timeout that is due does expire.
SpecHandlersFair == SpecHandlers /\ WF_vars(HandlerProgress)

====
